---- MODULE Spec2Model ----
(***************************************************************************)
(* Dealer gamma exposure engine of gamma-exposure-analysis.                *)
(*                                                                         *)
(* Two programs share one market-data provider:                            *)
(*   - GammaExposureAnalyzer (gamma_exposure_analyzer.py): price fetch,    *)
(*     options fetch, calculate_gamma_exposure and the derived views;      *)
(*   - OptionsDataFetcher + GammaCalculator (src/data_fetcher.py,          *)
(*     src/gamma_calculator.py), driven by app.py.                         *)
(*                                                                         *)
(* Numbers.  A Python/numpy value is a record [kind, v]: a number, NaN,    *)
(* None or a non-numeric object.  Finite numbers are exact integers, so    *)
(* floating-point rounding is not modelled.  The Black-Scholes closed form *)
(* is replaced by an integer proxy that keeps what the engine relies on:   *)
(* the early return for T <= 0 or sigma <= 0, NaN for a non-positive spot, *)
(* gamma >= 0 and equal for calls and puts, vanna and charm signed by d2   *)
(* and equal for calls and puts, delta shifted by one unit for puts.       *)
(***************************************************************************)
EXTENDS Integers, Sequences, FiniteSets, TLC

(***************************************************************************)
(* Bounds of the model                                                     *)
(***************************************************************************)
\* largest number of contracts the provider lists
MaxLen == 2
\* largest open interest of a contract
MaxOI == 2
\* largest implied volatility (in proxy units)
MaxIV == 1
\* latest expiration, in days after the analysis date
MaxDTE == 2

(***************************************************************************)
(* Python values                                                           *)
(***************************************************************************)
Num(n) == [kind |-> "num", v |-> n]
NaN == [kind |-> "nan", v |-> 0]
None == [kind |-> "none", v |-> 0]
NonNumeric == [kind |-> "str", v |-> 0]

IsNum(x) == x.kind = "num"
\* pd.isna
isna(x) == x.kind \in {"nan", "none"}

Abs(n) == IF n < 0 THEN 0 - n ELSE n

\* float negation, product and quotient by a positive constant: NaN propagates
FNeg(x) == IF IsNum(x) THEN Num(0 - x.v) ELSE NaN
FMul(x, y) == IF IsNum(x) /\ IsNum(y) THEN Num(x.v * y.v) ELSE NaN
\* pandas sums skip NaN (skipna=True): a NaN term adds nothing
SkipNa(x) == IF IsNum(x) THEN x.v ELSE 0

(***************************************************************************)
(* The provider's data: what yfinance returns for the ticker               *)
(***************************************************************************)
OptionTypes == {"call", "put"}
\* strikes around the quoted price: far below, at the money, 5% above
Strikes == {18, 20, 21}
\* quoted prices: None (no quote), a zero quote, a regular quote
Prices == {None, Num(0), Num(20)}
\* expirations are named by their distance in days from the analysis date
Expirations == 0 .. MaxDTE

ValidOI == {Num(n) : n \in 1 .. MaxOI}
ValidIV == {Num(n) : n \in 1 .. MaxIV}
\* open interest / implied volatility as quoted: at most one field degenerate
Quotes ==
    { [oi |-> o, iv |-> i] : o \in ValidOI, i \in ValidIV }
    \cup { [oi |-> o, iv |-> Num(1)] : o \in {NaN, NonNumeric, Num(0)} }
    \cup { [oi |-> Num(1), iv |-> i] : i \in {NaN, Num(0)} }

Contracts ==
    { [expiration |-> e, type |-> t, strike |-> k,
       openInterest |-> q.oi, impliedVolatility |-> q.iv] :
         e \in Expirations, t \in OptionTypes, k \in Strikes, q \in Quotes }

\* position of a contract in the provider's listing: expirations ascending,
\* calls before puts, strikes ascending
ListingKey(c) ==
    (c.expiration * 2 + (IF c.type = "call" THEN 0 ELSE 1)) * 100 + c.strike

SeqsUpTo(S, n) == UNION { [1 .. m -> S] : m \in 0 .. n }

\* option chains: one row per listed contract, in listing order
Chains ==
    { ch \in SeqsUpTo(Contracts, MaxLen) :
        \A i, j \in 1 .. Len(ch) : i < j => ListingKey(ch[i]) < ListingKey(ch[j]) }

(***************************************************************************)
(* PricingModel: GammaExposureAnalyzer.black_scholes_greeks                *)
(***************************************************************************)
\* GammaExposureAnalyzer.__init__: risk_free_rate, in proxy units
risk_free_rate == 1

\* proxy of sigma * sqrt(T); T is counted in days (T = days / 365.0)
VolSqrtT(T, sigma) == sigma * T
\* proxy of d1 = (ln(S/K) + (r + sigma^2/2) T) / (sigma sqrt(T))
D1(S, K, T, r, sigma) == (S - K) + r * VolSqrtT(T, sigma)
\* d2 = d1 - sigma sqrt(T)
D2(S, K, T, r, sigma) == D1(S, K, T, r, sigma) - VolSqrtT(T, sigma)
\* proxy of stats.norm.pdf: even, non-negative, 0 far from the mean
NormPdf(d) == IF Abs(d) >= 5 THEN 0 ELSE 5 - Abs(d)
\* proxy of stats.norm.cdf, in units of 1/10: non-decreasing from 0 to 10
NormCdf(d) == IF d <= 0 - 5 THEN 0 ELSE IF d >= 5 THEN 10 ELSE d + 5

ZeroGreeks == [delta |-> Num(0), gamma |-> Num(0), vanna |-> Num(0), charm |-> Num(0)]

\* black_scholes_greeks whose early return tests the time to expiry only
black_scholes_greeks_expired_only(S, K, T, r, sigma, option_type) ==
    IF T <= 0
    THEN ZeroGreeks
    ELSE [delta |-> IF option_type = "call"
                    THEN Num(NormCdf(D1(S, K, T, r, sigma)))
                    ELSE Num(NormCdf(D1(S, K, T, r, sigma)) - 10),
          charm |-> Num(0 - NormPdf(D1(S, K, T, r, sigma))
                            * (2 * r * T - D2(S, K, T, r, sigma) * VolSqrtT(T, sigma))),
          gamma |-> Num(NormPdf(D1(S, K, T, r, sigma))),
          vanna |-> Num(0 - NormPdf(D1(S, K, T, r, sigma)) * D2(S, K, T, r, sigma))]

\* black_scholes_greeks whose early return tests the volatility only
black_scholes_greeks_positive_vol_only(S, K, T, r, sigma, option_type) ==
    IF sigma <= 0
    THEN ZeroGreeks
    ELSE [delta |-> IF option_type = "call"
                    THEN Num(NormCdf(D1(S, K, T, r, sigma)))
                    ELSE Num(NormCdf(D1(S, K, T, r, sigma)) - 10),
          charm |-> Num(0 - NormPdf(D1(S, K, T, r, sigma))
                            * (2 * r * T - D2(S, K, T, r, sigma) * VolSqrtT(T, sigma))),
          gamma |-> Num(NormPdf(D1(S, K, T, r, sigma))),
          vanna |-> Num(0 - NormPdf(D1(S, K, T, r, sigma)) * D2(S, K, T, r, sigma))]

\* S, K, T, r, sigma are integers here; the caller unwraps them
black_scholes_greeks(S, K, T, r, sigma, option_type) ==
    IF T <= 0 \/ sigma <= 0
    THEN ZeroGreeks
    ELSE IF S < 0
    THEN \* np.log of a negative ratio is NaN and every Greek inherits it
         [delta |-> NaN, gamma |-> NaN, vanna |-> NaN, charm |-> NaN]
    ELSE IF S = 0
    THEN \* d1 = d2 = -inf: cdf is 0, pdf is 0, and 0/0, 0*inf are NaN
         [delta |-> IF option_type = "call" THEN Num(0) ELSE Num(0 - 10),
          gamma |-> NaN, vanna |-> NaN, charm |-> NaN]
    ELSE LET d1 == D1(S, K, T, r, sigma)
             d2 == D2(S, K, T, r, sigma)
         IN [delta |-> IF option_type = "call"
                       THEN Num(NormCdf(d1))
                       ELSE Num(NormCdf(d1) - 10),
             charm |-> Num(0 - NormPdf(d1) * (2 * r * T - d2 * VolSqrtT(T, sigma))),
             gamma |-> Num(NormPdf(d1)),
             vanna |-> Num(0 - NormPdf(d1) * d2)]

\* black_scholes_greeks called with the Python value S: with S = None the early
\* return still applies, and otherwise S / K raises TypeError inside the try
\* block, so the except clause returns the zero record
greeks_of(S, K, T, r, sigma, option_type) ==
    IF IsNum(S)
    THEN black_scholes_greeks(S.v, K, T, r, sigma, option_type)
    ELSE ZeroGreeks

(***************************************************************************)
(* ExposureCalculator: GammaExposureAnalyzer.calculate_gamma_exposure      *)
(***************************************************************************)
\* x * 100 * S^power * 0.01 (the factor 0.01 divides the exact multiple of 100)
Scale(x, S, power) ==
    IF IsNum(x)
    THEN Num((x.v * 100 * (IF power = 2 THEN S * S ELSE S)) \div 100)
    ELSE NaN

\* option_outcome without the openInterest == 0 filter
option_outcome_no_zero_filter(option) ==
    IF isna(option.openInterest) \/ isna(option.impliedVolatility) THEN "continue"
    ELSE IF ~IsNum(option.impliedVolatility) THEN "raise"
    ELSE IF option.impliedVolatility.v <= 0 THEN "continue"
    ELSE IF ~IsNum(option.openInterest) THEN "raise"
    ELSE "append"

\* what the try block does with one row: "continue" (a quality filter),
\* "raise" (an exception reaches the except clause) or "append"
option_outcome(option) ==
    IF isna(option.openInterest) \/ isna(option.impliedVolatility) THEN "continue"
    ELSE IF option.openInterest = Num(0) THEN "continue"
    ELSE IF ~IsNum(option.impliedVolatility) THEN "raise"
    ELSE IF option.impliedVolatility.v <= 0 THEN "continue"
    \* unary minus / product of a non-numeric open interest: TypeError
    ELSE IF ~IsNum(option.openInterest) THEN "raise"
    ELSE "append"

\* dealer_gamma_exposure with the put branch used for both classes
dealer_gamma_exposure_unsigned(option, greeks, S) ==
    Scale(FMul(option.openInterest, greeks.gamma), S, 2)

\* dealer gamma exposure: calls negative (dealers short), puts positive
dealer_gamma_exposure(option, greeks, S) ==
    IF option.type = "call"
    THEN Scale(FMul(FNeg(option.openInterest), greeks.gamma), S, 2)
    ELSE Scale(FMul(option.openInterest, greeks.gamma), S, 2)

\* exposure_record whose vanna and charm exposures take the sign of the option
\* class, as the gamma exposure does
exposure_record_class_signed(option, S) ==
    LET greeks == black_scholes_greeks(S, option.strike, option.time_to_expiration,
                                       risk_free_rate, option.impliedVolatility.v,
                                       option.type)
        signed_oi == IF option.type = "call"
                     THEN FNeg(option.openInterest) ELSE option.openInterest
    IN [expiration |-> option.expiration,
        days_to_expiration |-> option.days_to_expiration,
        strike |-> option.strike,
        type |-> option.type,
        open_interest |-> option.openInterest,
        implied_volatility |-> option.impliedVolatility,
        delta |-> greeks.delta,
        gamma |-> greeks.gamma,
        vanna |-> greeks.vanna,
        charm |-> greeks.charm,
        gamma_exposure |-> dealer_gamma_exposure(option, greeks, S),
        vanna_exposure |-> Scale(FMul(signed_oi, greeks.vanna), S, 1),
        charm_exposure |-> Scale(FMul(signed_oi, greeks.charm), S, 1)]

\* the dict appended for a row that passed the filters
exposure_record(option, S) ==
    LET greeks == black_scholes_greeks(S, option.strike, option.time_to_expiration,
                                       risk_free_rate, option.impliedVolatility.v,
                                       option.type)
        dealer_vanna_exposure == Scale(FNeg(FMul(option.openInterest, greeks.vanna)), S, 1)
        dealer_charm_exposure == Scale(FNeg(FMul(option.openInterest, greeks.charm)), S, 1)
    IN [expiration |-> option.expiration,
        days_to_expiration |-> option.days_to_expiration,
        strike |-> option.strike,
        type |-> option.type,
        open_interest |-> option.openInterest,
        implied_volatility |-> option.impliedVolatility,
        delta |-> greeks.delta,
        gamma |-> greeks.gamma,
        vanna |-> greeks.vanna,
        charm |-> greeks.charm,
        gamma_exposure |-> dealer_gamma_exposure(option, greeks, S),
        vanna_exposure |-> dealer_vanna_exposure,
        charm_exposure |-> dealer_charm_exposure]

\* gamma_exposure_list whose except clause leaves the loops (break) instead of
\* continuing with the next row
RECURSIVE gamma_exposure_list_abort(_, _)
gamma_exposure_list_abort(options, S) ==
    IF options = <<>> THEN <<>>
    ELSE LET option == Head(options)
             outcome == option_outcome(option)
         IN IF outcome = "raise" THEN <<>>
            ELSE (IF outcome = "append" THEN <<exposure_record(option, S)>> ELSE <<>>)
                 \o gamma_exposure_list_abort(Tail(options), S)

\* the two nested loops over options_data, row by row in iteration order;
\* the except clause continues with the next row
RECURSIVE gamma_exposure_list(_, _)
gamma_exposure_list(options, S) ==
    IF options = <<>> THEN <<>>
    ELSE LET option == Head(options)
             outcome == option_outcome(option)
         IN (IF outcome = "append" THEN <<exposure_record(option, S)>> ELSE <<>>)
            \o gamma_exposure_list(Tail(options), S)

(***************************************************************************)
(* Aggregator: by-strike table and strike x expiration matrices            *)
(***************************************************************************)
\* ascending sequence of a finite set of integers (groupby / sort_index order)
RECURSIVE SortAsc(_)
SortAsc(S) ==
    IF S = {} THEN <<>>
    ELSE LET m == CHOOSE x \in S : \A y \in S : x <= y
         IN <<m>> \o SortAsc(S \ {m})

\* Series.sum() of column col over the rows whose key column equals k,
\* added row by row in frame order, NaN skipped
RECURSIVE GroupSum(_, _, _, _)
GroupSum(rows, key, k, col) ==
    IF rows = <<>> THEN 0
    ELSE (IF Head(rows)[key] = k THEN SkipNa(Head(rows)[col]) ELSE 0)
         + GroupSum(Tail(rows), key, k, col)

\* idxmax returning the last position holding the maximum
idxmax_last(xs) ==
    CHOOSE i \in 1 .. Len(xs) :
        /\ \A j \in 1 .. Len(xs) : xs[j] <= xs[i]
        /\ \A j \in (i + 1) .. Len(xs) : xs[j] < xs[i]

\* Series.idxmax(): the first position holding the maximum
idxmax(xs) ==
    CHOOSE i \in 1 .. Len(xs) :
        /\ \A j \in 1 .. Len(xs) : xs[j] <= xs[i]
        /\ \A j \in 1 .. (i - 1) : xs[j] < xs[i]

\* Series.idxmin: the first position holding the minimum
idxmin(xs) ==
    CHOOSE i \in 1 .. Len(xs) :
        /\ \A j \in 1 .. Len(xs) : xs[i] <= xs[j]
        /\ \A j \in 1 .. i - 1 : xs[j] > xs[i]

\* group keys in order of first appearance (groupby(sort=False), no sort_values)
RECURSIVE group_keys_by_appearance(_)
group_keys_by_appearance(rows) ==
    IF rows = <<>> THEN <<>>
    ELSE LET rest == group_keys_by_appearance(SubSeq(rows, 1, Len(rows) - 1))
             k == rows[Len(rows)].strike
         IN IF \E i \in 1 .. Len(rest) : rest[i] = k THEN rest ELSE Append(rest, k)

\* groupby('strike'): one group per distinct strike, keys ascending
group_keys(rows) == SortAsc({ rows[i].strike : i \in 1 .. Len(rows) })

\* GammaExposureAnalyzer.aggregate_gamma_by_strike on a frame with rows
gamma_by_strike(rows) ==
    LET keys == group_keys(rows)
        agg == [i \in 1 .. Len(keys) |->
                  [strike |-> keys[i],
                   gamma_exposure |-> GroupSum(rows, "strike", keys[i], "gamma_exposure"),
                   vanna_exposure |-> GroupSum(rows, "strike", keys[i], "vanna_exposure"),
                   open_interest |-> GroupSum(rows, "strike", keys[i], "open_interest")]]
        abs_gamma_exposure == [i \in 1 .. Len(keys) |-> Abs(agg[i].gamma_exposure)]
        king_node_idx == idxmax(abs_gamma_exposure)
    IN [i \in 1 .. Len(keys) |->
          [strike |-> agg[i].strike,
           gamma_exposure |-> agg[i].gamma_exposure,
           vanna_exposure |-> agg[i].vanna_exposure,
           open_interest |-> agg[i].open_interest,
           abs_gamma_exposure |-> abs_gamma_exposure[i],
           is_king_node |-> (i = king_node_idx)]]

\* the cell holds its first record only (aggfunc='first')
CellFirst(rows, k, e, col) ==
    LET cell == { i \in 1 .. Len(rows) : rows[i].strike = k /\ rows[i].expiration = e }
    IN IF cell = {} THEN 0
       ELSE SkipNa(rows[CHOOSE i \in cell : \A j \in cell : i <= j][col])

\* sum of column col over the rows of one (strike, expiration) cell, NaN skipped
RECURSIVE CellSum(_, _, _, _)
CellSum(rows, k, e, col) ==
    IF rows = <<>> THEN 0
    ELSE (IF Head(rows).strike = k /\ Head(rows).expiration = e
          THEN SkipNa(Head(rows)[col]) ELSE 0)
         + CellSum(Tail(rows), k, e, col)

\* exposure_matrix whose cells sum the calls only
exposure_matrix_calls_only(rows, col) ==
    LET IsCall(row) == row.type = "call"
        index == SortAsc({ rows[i].strike : i \in 1 .. Len(rows) })
        columns == SortAsc({ rows[i].expiration : i \in 1 .. Len(rows) })
    IN [index |-> index,
        columns |-> columns,
        values |-> [i \in 1 .. Len(index) |->
                      [j \in 1 .. Len(columns) |->
                         CellSum(SelectSeq(rows, IsCall), index[i], columns[j], col)]]]

\* pivot_table(index='strike', columns='expiration', values=col, aggfunc='sum',
\* fill_value=0), then sort_index() and reindex(columns=sorted(...))
exposure_matrix(rows, col) ==
    LET index == SortAsc({ rows[i].strike : i \in 1 .. Len(rows) })
        columns == SortAsc({ rows[i].expiration : i \in 1 .. Len(rows) })
    IN [index |-> index,
        columns |-> columns,
        values |-> [i \in 1 .. Len(index) |->
                      [j \in 1 .. Len(columns) |->
                         CellSum(rows, index[i], columns[j], col)]]]

(***************************************************************************)
(* By-expiration aggregate: csv_exporter.py and advanced_analysis.py       *)
(***************************************************************************)
\* GroupBy 'count' of column col: the rows of the group whose value is not NaN
RECURSIVE GroupCount(_, _, _, _)
GroupCount(rows, key, k, col) ==
    IF rows = <<>> THEN 0
    ELSE (IF Head(rows)[key] = k /\ ~isna(Head(rows)[col]) THEN 1 ELSE 0)
         + GroupCount(Tail(rows), key, k, col)

\* GroupBy 'first' of column col: the value of the group's first row
GroupFirst(rows, key, k, col) ==
    rows[CHOOSE i \in 1 .. Len(rows) :
            /\ rows[i][key] = k
            /\ \A j \in 1 .. (i - 1) : rows[j][key] # k][col]

\* DataFrame.sort_values('days_to_expiration'): ascending, equal keys kept in order
RECURSIVE sort_values(_)
sort_values(table) ==
    IF table = <<>> THEN <<>>
    ELSE LET i == CHOOSE i \in 1 .. Len(table) :
                     /\ \A j \in 1 .. Len(table) :
                           table[i].days_to_expiration <= table[j].days_to_expiration
                     /\ \A j \in 1 .. (i - 1) :
                           table[i].days_to_expiration < table[j].days_to_expiration
         IN <<table[i]>>
            \o sort_values(SubSeq(table, 1, i - 1) \o SubSeq(table, i + 1, Len(table)))

\* gamma_impact_score dividing by days_to_expiration as it is
gamma_impact_score_raw(total, days) ==
    [numerator |-> Abs(total), denominator |-> days]

\* abs(total) / days_to_expiration.replace(0, 1), kept as the exact quotient
\* numerator / denominator
gamma_impact_score(total, days) ==
    [numerator |-> Abs(total), denominator |-> IF days = 0 THEN 1 ELSE days]

\* groupby('expiration').agg(...).reset_index(): one row per expiration, keys ascending
agg_by_expiration(rows) ==
    LET keys == SortAsc({ rows[i].expiration : i \in 1 .. Len(rows) })
    IN [i \in 1 .. Len(keys) |->
          [expiration |-> keys[i],
           total_gamma_exposure |-> GroupSum(rows, "expiration", keys[i], "gamma_exposure"),
           options_count |-> GroupCount(rows, "expiration", keys[i], "gamma_exposure"),
           total_vanna_exposure |-> GroupSum(rows, "expiration", keys[i], "vanna_exposure"),
           total_open_interest |-> GroupSum(rows, "expiration", keys[i], "open_interest"),
           days_to_expiration |->
               GroupFirst(rows, "expiration", keys[i], "days_to_expiration")]]

\* the by-expiration table with its score column
WithImpactScore(table) ==
    [i \in 1 .. Len(table) |->
       [expiration |-> table[i].expiration,
        total_gamma_exposure |-> table[i].total_gamma_exposure,
        options_count |-> table[i].options_count,
        total_vanna_exposure |-> table[i].total_vanna_exposure,
        total_open_interest |-> table[i].total_open_interest,
        days_to_expiration |-> table[i].days_to_expiration,
        gamma_impact_score |-> gamma_impact_score(table[i].total_gamma_exposure,
                                                  table[i].days_to_expiration)]]

\* GammaExposureCSVExporter.export_gamma_by_expiration: score, then sort
gamma_by_exp(rows) == sort_values(WithImpactScore(agg_by_expiration(rows)))

\* AdvancedGammaAnalysis.analyze_expiration_impact: sums, first days and summed
\* open interest per expiration (no count), sorted, then scored
exp_analysis(rows) ==
    LET table == sort_values(agg_by_expiration(rows))
    IN [i \in 1 .. Len(table) |->
          [expiration |-> table[i].expiration,
           gamma_exposure |-> table[i].total_gamma_exposure,
           vanna_exposure |-> table[i].total_vanna_exposure,
           days_to_expiration |-> table[i].days_to_expiration,
           open_interest |-> table[i].total_open_interest,
           gamma_impact_score |-> gamma_impact_score(table[i].total_gamma_exposure,
                                                     table[i].days_to_expiration)]]

(***************************************************************************)
(* RegimeClassifier: GammaExposureAnalyzer.analyze_market_sentiment        *)
(***************************************************************************)
\* sum of gamma_exposure over the by-strike rows selected by keep
RECURSIVE SeqSum(_)
SeqSum(xs) == IF xs = <<>> THEN 0 ELSE Head(xs) + SeqSum(Tail(xs))

SumWhere(table, keep(_)) ==
    SeqSum([i \in 1 .. Len(table) |->
              IF keep(table[i]) THEN table[i].gamma_exposure ELSE 0])

\* strike >= price - price * 0.05 and strike <= price + price * 0.05, in hundredths
near_money(row, price) ==
    /\ 100 * row.strike >= 100 * price - 5 * price
    /\ 100 * row.strike <= 100 * price + 5 * price

PositiveRegime == "Positive Gamma Environment - Expect Lower Volatility"
NegativeRegime == "Negative Gamma Environment - Expect Higher Volatility"
MixedRegime == "Mixed Gamma Environment - Moderate Volatility Expected"

\* market_regime with "or" in place of "and"
market_regime_either(net_gamma, near_money_gamma) ==
    IF net_gamma > 0 \/ near_money_gamma > 0 THEN PositiveRegime
    ELSE IF net_gamma < 0 \/ near_money_gamma < 0 THEN NegativeRegime
    ELSE MixedRegime

\* the if / elif / else on (net_gamma, near_money_gamma)
market_regime(net_gamma, near_money_gamma) ==
    IF net_gamma > 0 /\ near_money_gamma > 0 THEN PositiveRegime
    ELSE IF net_gamma < 0 /\ near_money_gamma < 0 THEN NegativeRegime
    ELSE MixedRegime

\* is_gamma_flip that takes a zero exposure for a sign change
is_gamma_flip_product(current_gamma, next_gamma) == current_gamma * next_gamma <= 0

\* whether the loop appends a flip candidate for the adjacent pair (i, i + 1)
is_gamma_flip(current_gamma, next_gamma) ==
    \/ (current_gamma > 0 /\ next_gamma < 0)
    \/ (current_gamma < 0 /\ next_gamma > 0)

\* the loop over range(len(gamma_by_strike) - 1); a flip strike is the midpoint
\* (a + b) / 2, kept exactly as its double a + b
RECURSIVE gamma_flip_candidates(_, _)
gamma_flip_candidates(table, i) ==
    IF i >= Len(table) THEN <<>>
    ELSE (IF is_gamma_flip(table[i].gamma_exposure, table[i + 1].gamma_exposure)
          THEN << [twice_strike |-> table[i].strike + table[i + 1].strike,
                   from |-> table[i].strike,
                   to |-> table[i + 1].strike] >>
          ELSE <<>>)
         \o gamma_flip_candidates(table, i + 1)

\* market_sentiment whose net_gamma adds the magnitudes of the two totals
market_sentiment_gross(table, price) ==
    LET IsPositive(row) == row.gamma_exposure > 0
        IsNegative(row) == row.gamma_exposure < 0
        IsNear(row) == near_money(row, price)
        total_positive_gamma == SumWhere(table, IsPositive)
        total_negative_gamma == SumWhere(table, IsNegative)
        net_gamma == total_positive_gamma - total_negative_gamma
        near_money_gamma == SumWhere(table, IsNear)
    IN [regime |-> market_regime(net_gamma, near_money_gamma),
        net_gamma |-> net_gamma,
        total_positive_gamma |-> total_positive_gamma,
        total_negative_gamma |-> total_negative_gamma,
        near_money_gamma |-> near_money_gamma,
        gamma_flip_points |-> gamma_flip_candidates(table, 1)]

\* the report of analyze_market_sentiment on a by-strike table
market_sentiment(table, price) ==
    LET IsPositive(row) == row.gamma_exposure > 0
        IsNegative(row) == row.gamma_exposure < 0
        IsNear(row) == near_money(row, price)
        total_positive_gamma == SumWhere(table, IsPositive)
        total_negative_gamma == SumWhere(table, IsNegative)
        net_gamma == total_positive_gamma + total_negative_gamma
        near_money_gamma == SumWhere(table, IsNear)
    IN [regime |-> market_regime(net_gamma, near_money_gamma),
        net_gamma |-> net_gamma,
        total_positive_gamma |-> total_positive_gamma,
        total_negative_gamma |-> total_negative_gamma,
        near_money_gamma |-> near_money_gamma,
        gamma_flip_points |-> gamma_flip_candidates(table, 1)]

(***************************************************************************)
(* LevelIdentifier: GammaExposureAnalyzer.identify_gamma_levels            *)
(***************************************************************************)
\* DataFrame[mask]: the rows passing keep, in order
Filter(table, keep(_)) == SelectSeq(table, keep)

\* x > Series.quantile(0.7) with linear interpolation between order statistics:
\* the quantile sits at position 0.7 * (n - 1) of the ascending values
above_quantile_70(x, values) ==
    LET RECURSIVE Insert(_, _)
        Insert(v, sorted) ==
            IF sorted = <<>> THEN <<v>>
            ELSE IF v <= Head(sorted) THEN <<v>> \o sorted
            ELSE <<Head(sorted)>> \o Insert(v, Tail(sorted))
        RECURSIVE Sorted(_)
        Sorted(vs) == IF vs = <<>> THEN <<>> ELSE Insert(Head(vs), Sorted(Tail(vs)))
        a == Sorted(values)
        n == Len(a)
        lo == (7 * (n - 1)) \div 10
        frac == (7 * (n - 1)) % 10
        hi == IF frac = 0 THEN lo ELSE lo + 1
    IN 10 * x > 10 * a[lo + 1] + frac * (a[hi + 1] - a[lo + 1])

\* DataFrame.nlargest(n, 'abs_gamma_exposure'): largest first, ties in row order
RECURSIVE nlargest(_, _)
nlargest(n, table) ==
    IF n = 0 \/ table = <<>> THEN <<>>
    ELSE LET i == idxmax([j \in 1 .. Len(table) |-> table[j].abs_gamma_exposure])
         IN <<table[i]>>
            \o nlargest(n - 1, SubSeq(table, 1, i - 1) \o SubSeq(table, i + 1, Len(table)))

\* significant strikes of one side of the price: the top 3 above the 70th percentile
significant_levels(side) ==
    IF Len(side) > 0
    THEN LET abs_values == [j \in 1 .. Len(side) |-> side[j].abs_gamma_exposure]
             IsSignificant(row) == above_quantile_70(row.abs_gamma_exposure, abs_values)
             top == nlargest(3, Filter(side, IsSignificant))
         IN [j \in 1 .. Len(top) |-> top[j].strike]
    ELSE <<>>

\* gamma_levels whose partition takes the strike at the price on both sides
gamma_levels_inclusive(table, price) ==
    LET IsPositive(row) == row.gamma_exposure > 0
        IsNegative(row) == row.gamma_exposure < 0
        IsAbove(row) == row.strike >= price
        IsBelow(row) == row.strike <= price
        IsKing(row) == row.is_king_node
        positive_nodes == Filter(table, IsPositive)
        negative_nodes == Filter(table, IsNegative)
    IN [positive_nodes |-> positive_nodes,
        negative_nodes |-> negative_nodes,
        largest_positive |->
            IF Len(positive_nodes) > 0
            THEN <<positive_nodes[idxmax([j \in 1 .. Len(positive_nodes) |->
                                             positive_nodes[j].gamma_exposure])]>>
            ELSE <<>>,
        largest_negative |->
            IF Len(negative_nodes) > 0
            THEN <<negative_nodes[idxmax([j \in 1 .. Len(negative_nodes) |->
                                             negative_nodes[j].abs_gamma_exposure])]>>
            ELSE <<>>,
        resistance_levels |-> significant_levels(Filter(table, IsAbove)),
        support_levels |-> significant_levels(Filter(table, IsBelow)),
        king_node |-> IF Len(table) > 0 THEN <<Filter(table, IsKing)[1]>> ELSE <<>>]

\* the report of identify_gamma_levels on a by-strike table
gamma_levels(table, price) ==
    LET IsPositive(row) == row.gamma_exposure > 0
        IsNegative(row) == row.gamma_exposure < 0
        IsAbove(row) == row.strike > price
        IsBelow(row) == row.strike < price
        IsKing(row) == row.is_king_node
        positive_nodes == Filter(table, IsPositive)
        negative_nodes == Filter(table, IsNegative)
    IN [positive_nodes |-> positive_nodes,
        negative_nodes |-> negative_nodes,
        largest_positive |->
            IF Len(positive_nodes) > 0
            THEN <<positive_nodes[idxmax([j \in 1 .. Len(positive_nodes) |->
                                             positive_nodes[j].gamma_exposure])]>>
            ELSE <<>>,
        largest_negative |->
            IF Len(negative_nodes) > 0
            THEN <<negative_nodes[idxmax([j \in 1 .. Len(negative_nodes) |->
                                             negative_nodes[j].abs_gamma_exposure])]>>
            ELSE <<>>,
        resistance_levels |-> significant_levels(Filter(table, IsAbove)),
        support_levels |-> significant_levels(Filter(table, IsBelow)),
        king_node |-> IF Len(table) > 0 THEN <<Filter(table, IsKing)[1]>> ELSE <<>>]

(***************************************************************************)
(* SignalGenerator: GammaExposureAnalyzer.generate_trading_signals         *)
(***************************************************************************)
\* min(levels, key=lambda x: abs(x - current_price)): the first nearest level
nearest_level(levels, price) ==
    levels[idxmin([j \in 1 .. Len(levels) |-> Abs(levels[j] - price)])]

\* abs(flip_point['strike'] - current_price) / current_price * 100 < 10, on the
\* doubled midpoint; a zero price gives inf or nan, which is not < 10
within_10_percent(twice_strike, price) ==
    price # 0 /\ 100 * Abs(twice_strike - 2 * price) < 10 * Abs(2 * price)

\* the flip-zone signals of the flip points within 10% of the price
RECURSIVE flip_signals(_, _)
flip_signals(flip_points, price) ==
    IF flip_points = <<>> THEN <<>>
    ELSE (IF within_10_percent(Head(flip_points).twice_strike, price)
          THEN << [signal |-> "Gamma Flip Zone",
                   level |-> Head(flip_points).twice_strike] >>
          ELSE <<>>)
         \o flip_signals(Tail(flip_points), price)

\* the signals list built from the sentiment and the levels; a signal is
\* [signal, level]: the level is a strike, the doubled midpoint of a flip zone,
\* or 0 for the regime line, which names none
trading_signals(sentiment, levels, price) ==
    (IF Len(levels.resistance_levels) > 0
        /\ nearest_level(levels.resistance_levels, price) > price
     THEN << [signal |-> "Resistance",
              level |-> nearest_level(levels.resistance_levels, price)] >>
     ELSE <<>>)
    \o (IF Len(levels.support_levels) > 0
           /\ nearest_level(levels.support_levels, price) < price
        THEN << [signal |-> "Support",
                 level |-> nearest_level(levels.support_levels, price)] >>
        ELSE <<>>)
    \o (IF Len(levels.king_node) > 0
        THEN << [signal |-> IF levels.king_node[1].gamma_exposure > 0
                            THEN "King Node (Positive)"
                            ELSE "King Node (Negative)",
                 level |-> levels.king_node[1].strike] >>
        ELSE <<>>)
    \o flip_signals(sentiment.gamma_flip_points, price)
    \o << [signal |-> sentiment.regime, level |-> 0] >>

(***************************************************************************)
(* GammaCalculator (src/gamma_calculator.py)                               *)
(***************************************************************************)
\* GammaCalculator.__init__: risk_free_rate, in proxy units
GammaCalculator_risk_free_rate == 1

\* spot and the row's strike, dte, iv are integers here
black_scholes_gamma(spot, strike, time_to_expiry, volatility, option_type) ==
    IF time_to_expiry <= 0 \/ volatility <= 0
    THEN Num(0)
    ELSE IF spot <= 0
    THEN \* log of a non-positive ratio: d1 is -inf or NaN, gamma is NaN
         NaN
    ELSE Num(NormPdf(D1(spot, strike, time_to_expiry,
                        GammaCalculator_risk_free_rate, volatility)))

\* the dict appended for one row of options_df
GammaCalculator_result(spot, row, notional_multiplier) ==
    LET gamma == black_scholes_gamma(spot, row.strike, row.dte, row.iv.v, row.type)
        sign == IF row.type = "put" THEN 1 ELSE 0 - 1
        gamma_exposure ==
            FMul(FMul(FMul(FMul(Num(sign), gamma), row.oi), Num(notional_multiplier)),
                 Num(spot * spot))
    IN [strike |-> row.strike,
        gamma |-> gamma,
        gamma_exposure |-> gamma_exposure,
        open_interest |-> row.oi,
        type |-> row.type]

\* GammaCalculator.calculate_gamma_exposure: one result per row, none skipped
GammaCalculator_results(spot, options) ==
    [i \in 1 .. Len(options) |-> GammaCalculator_result(spot, options[i], 100)]

\* GammaCalculator.aggregate_gamma_by_strike on a frame with rows
GammaCalculator_by_strike(rows) ==
    LET keys == group_keys(rows)
    IN [i \in 1 .. Len(keys) |->
          [strike |-> keys[i],
           gamma_exposure |-> GroupSum(rows, "strike", keys[i], "gamma_exposure"),
           open_interest |-> GroupSum(rows, "strike", keys[i], "open_interest")]]

(***************************************************************************)
(* OptionsDataFetcher.fetch_options_chain (src/data_fetcher.py)            *)
(***************************************************************************)
\* default of the max_expirations parameter
max_expirations == 3

\* one provider row renamed, with dte = (exp_datetime - datetime.now()).days:
\* now carries the time of day, so the difference loses a day unless the fetch
\* runs at midnight sharp
WithDte(c, at_midnight) ==
    [expiration |-> c.expiration, type |-> c.type, strike |-> c.strike,
     oi |-> c.openInterest, iv |-> c.impliedVolatility,
     dte |-> IF at_midnight THEN c.expiration ELSE c.expiration - 1]

\* df[df['iv'] > 0] then df[df['oi'] > 0]; comparing a non-numeric cell raises,
\* and the except clause returns an empty frame
fetched_chain(chain, at_midnight) ==
    LET expirations == SortAsc({ chain[i].expiration : i \in 1 .. Len(chain) })
        expirations_to_fetch ==
            { expirations[j] : j \in 1 .. (IF Len(expirations) < max_expirations
                                            THEN Len(expirations) ELSE max_expirations) }
        Fetched(c) == c.expiration \in expirations_to_fetch
        df == SelectSeq(chain, Fetched)
        Clean(c) == /\ IsNum(c.impliedVolatility) /\ c.impliedVolatility.v > 0
                    /\ IsNum(c.openInterest) /\ c.openInterest.v > 0
        kept == SelectSeq(df, Clean)
    IN IF \E i \in 1 .. Len(df) :
             df[i].openInterest.kind = "str" \/ df[i].impliedVolatility.kind = "str"
       THEN <<>>
       ELSE [i \in 1 .. Len(kept) |-> WithDte(kept[i], at_midnight)]

(***************************************************************************)
(* State                                                                   *)
(***************************************************************************)
VARIABLES
    program,              \* which entry point runs: "analyzer" or "app"
    market,               \* the provider's snapshot: [price, chain]
    current_price,        \* GammaExposureAnalyzer.current_price
    options_data,         \* GammaExposureAnalyzer.options_data, rows in iteration order
    gamma_exposure_data,  \* GammaExposureAnalyzer.gamma_exposure_data
    spot_price,           \* GammaCalculator.spot_price (None: no calculator yet)
    options_df,           \* app.py: what fetch_options_chain returned
    gamma_df,             \* app.py: what GammaCalculator.calculate_gamma_exposure returned
    session_state,        \* streamlit_app.py: st.session_state, kept across reruns
    ticker_input,         \* streamlit_app.py: the text of the ticker input widget
    ret                   \* the last call: [op, status, val]

analyzer_vars == <<current_price, options_data, gamma_exposure_data>>
app_vars == <<spot_price, options_df, gamma_df>>
dashboard_vars == <<session_state, ticker_input>>
vars == <<program, market, analyzer_vars, app_vars, dashboard_vars, ret>>

\* a DataFrame (kind "frame") or None; pd.DataFrame([]) is a frame without rows
\* and without columns
Frame(rows) == [kind |-> "frame", rows |-> rows]
NoFrame == [kind |-> "none", rows |-> <<>>]

\* st.session_state of a new browser session: no key is set; a key that is
\* set holds one value
NewSession == [last_ticker |-> <<>>, analysis_results |-> <<>>]
\* the ticker input shows its default value
DefaultTicker == "SPY"

Returned(op, val) == [op |-> op, status |-> "ok", val |-> val]
ReturnedNone(op) == [op |-> op, status |-> "none", val |-> None]
Raised(op, exc) == [op |-> op, status |-> "raised", val |-> exc]

Init ==
    /\ program \in {"analyzer", "app"}
    /\ market \in [price : Prices, chain : Chains]
    /\ current_price = None
    /\ options_data = <<>>
    /\ gamma_exposure_data = NoFrame
    /\ spot_price = None
    /\ options_df = NoFrame
    /\ gamma_df = NoFrame
    /\ session_state = NewSession
    /\ ticker_input = DefaultTicker
    /\ ret = ReturnedNone("__init__")

(***************************************************************************)
(* GammaExposureAnalyzer: fetches                                          *)
(***************************************************************************)
get_current_price ==
    /\ program = "analyzer"
    /\ current_price' = market.price
    /\ ret' = Returned("get_current_price", market.price)
    /\ UNCHANGED <<dashboard_vars, program, market, options_data, gamma_exposure_data, app_vars>>

\* one provider row with the two derived columns
WithExpirationColumns(c) ==
    [expiration |-> c.expiration, type |-> c.type, strike |-> c.strike,
     openInterest |-> c.openInterest, impliedVolatility |-> c.impliedVolatility,
     days_to_expiration |-> c.expiration,
     time_to_expiration |-> c.expiration]

get_options_data ==
    /\ program = "analyzer"
    /\ options_data' = [i \in 1 .. Len(market.chain) |-> WithExpirationColumns(market.chain[i])]
    /\ ret' = Returned("get_options_data", Len(market.chain))
    /\ UNCHANGED <<dashboard_vars, program, market, current_price, gamma_exposure_data, app_vars>>

calculate_gamma_exposure ==
    /\ program = "analyzer"
    /\ IF options_data = <<>> \/ current_price = None
       THEN /\ ret' = ReturnedNone("calculate_gamma_exposure")
            /\ UNCHANGED gamma_exposure_data
       ELSE LET rows == gamma_exposure_list(options_data, current_price.v)
            IN /\ gamma_exposure_data' = Frame(rows)
               /\ ret' = IF Len(rows) > 0
                         THEN Returned("calculate_gamma_exposure", Frame(rows))
                         ELSE ReturnedNone("calculate_gamma_exposure")
    /\ UNCHANGED <<dashboard_vars, program, market, current_price, options_data, app_vars>>

(***************************************************************************)
(* GammaExposureAnalyzer: derived views                                    *)
(***************************************************************************)
\* what a derived view does with gamma_exposure_data: None when it is None,
\* KeyError when it is the column-less frame pd.DataFrame([]), else the view
ViewOf(op, view(_)) ==
    IF gamma_exposure_data = NoFrame
    THEN ReturnedNone(op)
    ELSE IF gamma_exposure_data.rows = <<>>
    THEN Raised(op, "KeyError")
    ELSE Returned(op, view(gamma_exposure_data.rows))

\* aggregate_gamma_by_strike that keeps only the records of the king strike in
\* gamma_exposure_data
aggregate_gamma_by_strike_in_place ==
    /\ program = "analyzer"
    /\ ret' = ViewOf("aggregate_gamma_by_strike", gamma_by_strike)
    /\ gamma_exposure_data' =
          IF gamma_exposure_data.rows = <<>>
          THEN gamma_exposure_data
          ELSE LET table == gamma_by_strike(gamma_exposure_data.rows)
                   IsKing(row) == row.is_king_node
                   AtKing(row) == row.strike = SelectSeq(table, IsKing)[1].strike
               IN Frame(SelectSeq(gamma_exposure_data.rows, AtKing))
    /\ UNCHANGED <<dashboard_vars, program, market, current_price, options_data, app_vars>>

aggregate_gamma_by_strike ==
    /\ program = "analyzer"
    /\ ret' = ViewOf("aggregate_gamma_by_strike", gamma_by_strike)
    /\ UNCHANGED <<dashboard_vars, program, market, analyzer_vars, app_vars>>

gamma_matrix(rows) == exposure_matrix(rows, "gamma_exposure")

aggregate_gamma_by_expiration ==
    /\ program = "analyzer"
    /\ ret' = ViewOf("aggregate_gamma_by_expiration", gamma_matrix)
    /\ UNCHANGED <<dashboard_vars, program, market, analyzer_vars, app_vars>>

sentiment_view(rows) == market_sentiment(gamma_by_strike(rows), current_price.v)

analyze_market_sentiment ==
    /\ program = "analyzer"
    /\ ret' = ViewOf("analyze_market_sentiment", sentiment_view)
    /\ UNCHANGED <<dashboard_vars, program, market, analyzer_vars, app_vars>>

levels_view(rows) == gamma_levels(gamma_by_strike(rows), current_price.v)

identify_gamma_levels ==
    /\ program = "analyzer"
    /\ ret' = ViewOf("identify_gamma_levels", levels_view)
    /\ UNCHANGED <<dashboard_vars, program, market, analyzer_vars, app_vars>>

(***************************************************************************)
(* app.py: OptionsDataFetcher and GammaCalculator                          *)
(***************************************************************************)
fetch_options_chain ==
    /\ program = "app"
    /\ \E at_midnight \in BOOLEAN :
         options_df' = Frame(fetched_chain(market.chain, at_midnight))
    /\ ret' = Returned("fetch_options_chain", Len(options_df'.rows))
    /\ UNCHANGED <<dashboard_vars, program, market, analyzer_vars, spot_price, gamma_df>>

\* GammaCalculator(current_price, risk_free_rate), after app.py's None check
GammaCalculator_init ==
    /\ program = "app"
    /\ market.price # None
    /\ spot_price' = market.price
    /\ ret' = ReturnedNone("GammaCalculator.__init__")
    /\ UNCHANGED <<dashboard_vars, program, market, analyzer_vars, options_df, gamma_df>>

GammaCalculator_calculate_gamma_exposure ==
    /\ program = "app"
    /\ spot_price # None
    /\ options_df # NoFrame
    /\ gamma_df' = Frame(GammaCalculator_results(spot_price.v, options_df.rows))
    /\ ret' = Returned("GammaCalculator.calculate_gamma_exposure", Len(gamma_df'.rows))
    /\ UNCHANGED <<dashboard_vars, program, market, analyzer_vars, spot_price, options_df>>

GammaCalculator_aggregate_gamma_by_strike ==
    /\ program = "app"
    /\ gamma_df # NoFrame
    /\ ret' = IF gamma_df.rows = <<>>
              THEN Raised("GammaCalculator.aggregate_gamma_by_strike", "KeyError")
              ELSE Returned("GammaCalculator.aggregate_gamma_by_strike",
                            GammaCalculator_by_strike(gamma_df.rows))
    /\ UNCHANGED <<dashboard_vars, program, market, analyzer_vars, app_vars>>

(***************************************************************************)
(* Vanna and charm matrices, by-expiration exports                         *)
(***************************************************************************)
\* vanna_matrix built from the records with a vanna exposure other than zero
vanna_matrix_exposed(rows) ==
    LET Exposed(row) == row.vanna_exposure # Num(0)
    IN exposure_matrix(SelectSeq(rows, Exposed), "vanna_exposure")

vanna_matrix(rows) == exposure_matrix(rows, "vanna_exposure")

aggregate_vanna_by_expiration ==
    /\ program = "analyzer"
    /\ ret' = ViewOf("aggregate_vanna_by_expiration", vanna_matrix)
    /\ UNCHANGED <<dashboard_vars, program, market, analyzer_vars, app_vars>>

charm_matrix(rows) == exposure_matrix(rows, "charm_exposure")

aggregate_charm_by_expiration ==
    /\ program = "analyzer"
    /\ ret' = ViewOf("aggregate_charm_by_expiration", charm_matrix)
    /\ UNCHANGED <<dashboard_vars, program, market, analyzer_vars, app_vars>>

\* GammaExposureCSVExporter.export_gamma_by_expiration; the value is the table
\* written to the CSV file
export_gamma_by_expiration ==
    /\ program = "analyzer"
    /\ ret' = ViewOf("export_gamma_by_expiration", gamma_by_exp)
    /\ UNCHANGED <<dashboard_vars, program, market, analyzer_vars, app_vars>>

\* AdvancedGammaAnalysis.analyze_expiration_impact
analyze_expiration_impact ==
    /\ program = "analyzer"
    /\ ret' = ViewOf("analyze_expiration_impact", exp_analysis)
    /\ UNCHANGED <<dashboard_vars, program, market, analyzer_vars, app_vars>>

Next ==
    \/ get_current_price
    \/ get_options_data
    \/ calculate_gamma_exposure
    \/ aggregate_gamma_by_strike
    \/ aggregate_gamma_by_expiration
    \/ analyze_market_sentiment
    \/ identify_gamma_levels
    \/ fetch_options_chain
    \/ GammaCalculator_init
    \/ GammaCalculator_calculate_gamma_exposure
    \/ GammaCalculator_aggregate_gamma_by_strike

Spec == Init /\ [][Next]_vars

(***************************************************************************)
(* Direct calls of the pricing model (quick_test.py)                       *)
(***************************************************************************)
\* times to expiry and volatilities a caller may pass, degenerate ones included
TimesToExpiry == (0 - 1) .. MaxDTE
Volatilities == (0 - 1) .. MaxIV

\* a chain-less snapshot: the pricing model is called on its own
PricingInit ==
    /\ program \in {"analyzer", "app"}
    /\ market \in [price : Prices, chain : {<<>>}]
    /\ current_price = None
    /\ options_data = <<>>
    /\ gamma_exposure_data = NoFrame
    /\ spot_price = None
    /\ options_df = NoFrame
    /\ gamma_df = NoFrame
    /\ session_state = NewSession
    /\ ticker_input = DefaultTicker
    /\ ret = ReturnedNone("__init__")

\* analyzer.black_scholes_greeks(S=current_price, K, T, r, sigma, option_type)
call_black_scholes_greeks ==
    /\ program = "analyzer"
    /\ \E K \in Strikes, T \in TimesToExpiry, sigma \in Volatilities,
          option_type \in OptionTypes :
         ret' = Returned("black_scholes_greeks",
                         [S |-> current_price, K |-> K, T |-> T, sigma |-> sigma,
                          option_type |-> option_type,
                          greeks |-> greeks_of(current_price, K, T, risk_free_rate,
                                               sigma, option_type)])
    /\ UNCHANGED <<dashboard_vars, program, market, analyzer_vars, app_vars>>

\* calculator.black_scholes_gamma(strike, time_to_expiry, volatility, option_type)
call_black_scholes_gamma ==
    /\ program = "app"
    /\ spot_price # None
    /\ \E K \in Strikes, T \in TimesToExpiry, sigma \in Volatilities,
          option_type \in OptionTypes :
         ret' = Returned("black_scholes_gamma",
                         [S |-> spot_price, K |-> K, T |-> T, sigma |-> sigma,
                          option_type |-> option_type,
                          gamma |-> black_scholes_gamma(spot_price.v, K, T, sigma,
                                                        option_type)])
    /\ UNCHANGED <<dashboard_vars, program, market, analyzer_vars, app_vars>>

PricingNext ==
    \/ get_current_price
    \/ GammaCalculator_init
    \/ call_black_scholes_greeks
    \/ call_black_scholes_gamma

PricingSpec == PricingInit /\ [][PricingNext]_vars

(***************************************************************************)
(* The analyzer with its matrices, and with its by-expiration exports      *)
(***************************************************************************)
AnalyzerInit == Init /\ program = "analyzer"

MatrixNext ==
    \/ get_current_price
    \/ get_options_data
    \/ calculate_gamma_exposure
    \/ aggregate_gamma_by_expiration
    \/ aggregate_vanna_by_expiration
    \/ aggregate_charm_by_expiration

MatrixSpec == AnalyzerInit /\ [][MatrixNext]_vars

ExpirationNext ==
    \/ get_current_price
    \/ get_options_data
    \/ calculate_gamma_exposure
    \/ aggregate_gamma_by_strike
    \/ export_gamma_by_expiration
    \/ analyze_expiration_impact

ExpirationSpec == AnalyzerInit /\ [][ExpirationNext]_vars

(***************************************************************************)
(* The analyzer on a long chain: many strikes around one regular price     *)
(***************************************************************************)
\* number of listed strikes far above the price
MaxFarStrikes == 8

\* strikes just above the price, and strikes far above it
NearStrikes == 21 .. 24
FarStrikes == { 25 + j : j \in 1 .. MaxFarStrikes }

\* a listed contract with a valid quote
LevelContract(e, t, k, oi) ==
    [expiration |-> e, type |-> t, strike |-> k,
     openInterest |-> Num(oi), impliedVolatility |-> Num(1)]

\* the rows of a set of contracts in the provider's listing order
RECURSIVE SortByListing(_)
SortByListing(S) ==
    IF S = {} THEN <<>>
    ELSE LET c == CHOOSE x \in S : \A y \in S : ListingKey(x) <= ListingKey(y)
         IN <<c>> \o SortByListing(S \ {c})

\* long chains: a put at each near strike, the first m far strikes,
\* at the price a put expiring today or tomorrow or none, and below the
\* price a put, a call, two puts or none
LevelChains ==
    { SortByListing(
          { LevelContract(1, "put", k, near[k]) : k \in NearStrikes }
          \cup { LevelContract(1, "put", k, 1) : k \in { x \in FarStrikes : x <= 25 + m } }
          \cup at_price \cup below) :
        near \in [NearStrikes -> 1 .. MaxOI],
        m \in 0 .. MaxFarStrikes,
        at_price \in {{}} \cup { {LevelContract(e, "put", 20, 1)} : e \in 0 .. 1 },
        below \in {{}} \cup { {LevelContract(1, t, 19, 1)} : t \in OptionTypes }
                       \cup { {LevelContract(1, "put", 18, 1), LevelContract(1, "put", 19, 1)} } }

LevelsInit ==
    /\ program = "analyzer"
    /\ market \in [price : {Num(20)}, chain : LevelChains]
    /\ current_price = None
    /\ options_data = <<>>
    /\ gamma_exposure_data = NoFrame
    /\ spot_price = None
    /\ options_df = NoFrame
    /\ gamma_df = NoFrame
    /\ session_state = NewSession
    /\ ticker_input = DefaultTicker
    /\ ret = ReturnedNone("__init__")

LevelsNext ==
    \/ get_current_price
    \/ get_options_data
    \/ calculate_gamma_exposure
    \/ analyze_market_sentiment
    \/ identify_gamma_levels

LevelsSpec == LevelsInit /\ [][LevelsNext]_vars

(***************************************************************************)
(* app.py: the key levels of the by-strike aggregate                       *)
(***************************************************************************)
\* the empty dictionary {}
EmptyDict == [key \in {} |-> 0]

\* GammaCalculator.find_gamma_levels
find_gamma_levels(aggregated_df) ==
    IF aggregated_df = <<>>
    THEN EmptyDict
    ELSE LET gamma_exposure == [i \in 1 .. Len(aggregated_df) |->
                                   aggregated_df[i].gamma_exposure]
             zero_gamma_idx == idxmin([i \in 1 .. Len(aggregated_df) |->
                                          Abs(gamma_exposure[i])])
             max_pos_idx == idxmax(gamma_exposure)
             max_neg_idx == idxmin(gamma_exposure)
         IN [zero_gamma_level |-> aggregated_df[zero_gamma_idx].strike,
             max_positive_strike |-> aggregated_df[max_pos_idx].strike,
             max_positive_gex |-> gamma_exposure[max_pos_idx],
             max_negative_strike |-> aggregated_df[max_neg_idx].strike,
             max_negative_gex |-> gamma_exposure[max_neg_idx],
             total_gamma_exposure |-> SeqSum(gamma_exposure)]

\* calculator.find_gamma_levels(aggregated_df), on the aggregate of gamma_df
\* as app.py calls it or on an empty frame; the value keeps the argument
GammaCalculator_find_gamma_levels ==
    /\ program = "app"
    /\ spot_price # None
    /\ \E aggregated_df \in
            {<<>>} \cup (IF gamma_df # NoFrame /\ gamma_df.rows # <<>>
                         THEN {GammaCalculator_by_strike(gamma_df.rows)}
                         ELSE {}) :
         ret' = Returned("GammaCalculator.find_gamma_levels",
                         [aggregated_df |-> aggregated_df,
                          levels |-> find_gamma_levels(aggregated_df)])
    /\ UNCHANGED <<dashboard_vars, program, market, analyzer_vars, app_vars>>

AppInit == Init /\ program = "app"

AppNext ==
    \/ fetch_options_chain
    \/ GammaCalculator_init
    \/ GammaCalculator_calculate_gamma_exposure
    \/ GammaCalculator_aggregate_gamma_by_strike
    \/ GammaCalculator_find_gamma_levels

AppSpec == AppInit /\ [][AppNext]_vars

(***************************************************************************)
(* The analyzer with all its derived views                                 *)
(***************************************************************************)
signals_view(rows) ==
    trading_signals(sentiment_view(rows), levels_view(rows), current_price.v)

\* analyze_market_sentiment and identify_gamma_levels are called first: None
\* from either gives None, and their KeyError propagates
generate_trading_signals ==
    /\ program = "analyzer"
    /\ ret' = ViewOf("generate_trading_signals", signals_view)
    /\ UNCHANGED <<dashboard_vars, program, market, analyzer_vars, app_vars>>

ViewsNext ==
    \/ get_current_price
    \/ get_options_data
    \/ calculate_gamma_exposure
    \/ aggregate_gamma_by_strike
    \/ aggregate_gamma_by_expiration
    \/ aggregate_vanna_by_expiration
    \/ aggregate_charm_by_expiration
    \/ identify_gamma_levels
    \/ analyze_market_sentiment
    \/ generate_trading_signals

\* snapshots whose contracts are quoted with a regular volatility and an open
\* interest that is regular or zero
ViewsInit ==
    /\ AnalyzerInit
    /\ \A i \in 1 .. Len(market.chain) :
          /\ market.chain[i].impliedVolatility \in ValidIV
          /\ market.chain[i].openInterest \in ValidOI \cup {Num(0)}

ViewsSpec == ViewsInit /\ [][ViewsNext]_vars

(***************************************************************************)
(* GammaExposureAnalyzer.run_complete_analysis, step by step.  While the   *)
(* call runs, ret holds its frame: the steps executed so far and the       *)
(* locals sentiment and signals.                                           *)
(***************************************************************************)
RunFrame(status, executed, sentiment, signals, report) ==
    [op |-> "run_complete_analysis", status |-> status,
     val |-> [executed |-> executed, sentiment |-> sentiment, signals |-> signals,
              report |-> report]]

Running == ret.op = "run_complete_analysis" /\ ret.status = "running"

\* the call is at the step that follows the executed ones
RunAt(executed) == Running /\ ret.val.executed = executed

\* 'if current_price is None', 'if not options_data', 'if gamma_data is None'
price_fetch_failed(price) == price = None
options_fetch_failed_never(options) == FALSE
options_fetch_failed(options) == options = <<>>
calculation_failed(rows) == Len(rows) = 0

\* Step 1: self.get_current_price()
run_get_current_price ==
    /\ program = "analyzer"
    /\ ~Running
    /\ current_price' = market.price
    /\ ret' = RunFrame(IF price_fetch_failed(market.price) THEN "none" ELSE "running",
                       <<"get_current_price">>, None, None, None)
    /\ UNCHANGED <<dashboard_vars, program, market, options_data, gamma_exposure_data, app_vars>>

\* Step 2: self.get_options_data()
run_get_options_data ==
    /\ RunAt(<<"get_current_price">>)
    /\ options_data' = [i \in 1 .. Len(market.chain) |-> WithExpirationColumns(market.chain[i])]
    /\ ret' = RunFrame(IF options_fetch_failed(options_data') THEN "none" ELSE "running",
                       ret.val.executed \o <<"get_options_data">>, None, None, None)
    /\ UNCHANGED <<dashboard_vars, program, market, current_price, gamma_exposure_data, app_vars>>

\* Step 3: self.calculate_gamma_exposure(); None also when no record is emitted
run_calculate_gamma_exposure ==
    /\ RunAt(<<"get_current_price", "get_options_data">>)
    /\ IF options_data = <<>> \/ current_price = None
       THEN /\ UNCHANGED gamma_exposure_data
            /\ ret' = RunFrame("none", ret.val.executed \o <<"calculate_gamma_exposure">>,
                               None, None, None)
       ELSE LET rows == gamma_exposure_list(options_data, current_price.v)
            IN /\ gamma_exposure_data' = Frame(rows)
               /\ ret' = RunFrame(IF calculation_failed(rows) THEN "none" ELSE "running",
                                  ret.val.executed \o <<"calculate_gamma_exposure">>,
                                  None, None, None)
    /\ UNCHANGED <<dashboard_vars, program, market, current_price, options_data, app_vars>>

\* Step 4: sentiment = self.analyze_market_sentiment()
run_analyze_market_sentiment ==
    /\ RunAt(<<"get_current_price", "get_options_data", "calculate_gamma_exposure">>)
    /\ ret' = RunFrame("running", ret.val.executed \o <<"analyze_market_sentiment">>,
                       sentiment_view(gamma_exposure_data.rows), None, None)
    /\ UNCHANGED <<dashboard_vars, program, market, analyzer_vars, app_vars>>

\* Step 5: signals = self.generate_trading_signals()
run_generate_trading_signals ==
    /\ RunAt(<<"get_current_price", "get_options_data", "calculate_gamma_exposure",
               "analyze_market_sentiment">>)
    /\ ret' = RunFrame("running", ret.val.executed \o <<"generate_trading_signals">>,
                       ret.val.sentiment, signals_view(gamma_exposure_data.rows), None)
    /\ UNCHANGED <<dashboard_vars, program, market, analyzer_vars, app_vars>>

\* Step 6: plot_gamma_profile() and plot_gamma_exposure_heatmap(), then the report
run_plots ==
    /\ RunAt(<<"get_current_price", "get_options_data", "calculate_gamma_exposure",
               "analyze_market_sentiment", "generate_trading_signals">>)
    /\ ret' = RunFrame("ok", ret.val.executed \o <<"plots">>,
                       ret.val.sentiment, ret.val.signals,
                       [sentiment |-> ret.val.sentiment,
                        signals |-> ret.val.signals,
                        gamma_data |-> gamma_exposure_data,
                        current_price |-> current_price])
    /\ UNCHANGED <<dashboard_vars, program, market, analyzer_vars, app_vars>>

RunNext ==
    \/ run_get_current_price
    \/ run_get_options_data
    \/ run_calculate_gamma_exposure
    \/ run_analyze_market_sentiment
    \/ run_generate_trading_signals
    \/ run_plots

RunSpec == AnalyzerInit /\ [][RunNext]_vars

(***************************************************************************)
(* The analyzer on a provider whose snapshot changes between fetches       *)
(***************************************************************************)
\* snapshots of a short listing: no contract, or one contract expiring
\* tomorrow with a regular or zero open interest; the quote may be missing
Snapshots ==
    [price : {None, Num(20)},
     chain : {<<>>} \cup
             { << [expiration |-> 1, type |-> t, strike |-> k,
                   openInterest |-> oi, impliedVolatility |-> Num(1)] >> :
                 t \in OptionTypes, k \in Strikes, oi \in {Num(0), Num(1)} }]

SnapshotInit == AnalyzerInit /\ market \in Snapshots

\* the provider publishes another snapshot
new_snapshot ==
    /\ market' \in Snapshots \ {market}
    /\ UNCHANGED <<dashboard_vars, program, analyzer_vars, app_vars, ret>>

SnapshotNext ==
    \/ new_snapshot
    \/ get_current_price
    \/ get_options_data
    \/ calculate_gamma_exposure

SnapshotSpec == SnapshotInit /\ [][SnapshotNext]_vars

(***************************************************************************)
(* csv_exporter.py: GammaExposureCSVExporter and create_gamma_exports      *)
(***************************************************************************)
\* the exports in the order of export_all's list, and the format naming each
Exports == <<"raw", "matrix", "strike", "expiration", "levels", "summary">>
ExportFormats == {"all"} \cup { Exports[i] : i \in 1 .. Len(Exports) }

\* os.path.join(export_dir, filename) of the i-th export
FilePath(i) == [kind |-> "path", v |-> i]

\* what one export method does on the analyzer's exposure data: "none" for
\* return None, "raise" for the KeyError of a view on the column-less frame,
\* "file" when to_csv wrote its file and the path is returned
export_outcome(export, data) ==
    IF data = NoFrame THEN "none"
    ELSE IF export = "raw" THEN "file"
    ELSE IF data.rows = <<>> THEN "raise"
    ELSE IF export = "matrix" /\ gamma_matrix(data.rows).index = <<>> THEN "none"
    ELSE "file"

\* export_all: every export is tried, an exception is caught, a path is
\* appended when the export returned one
RECURSIVE export_all(_, _)
export_all(i, data) ==
    IF i > Len(Exports) THEN <<>>
    ELSE (IF export_outcome(Exports[i], data) = "file" THEN <<FilePath(i)>> ELSE <<>>)
         \o export_all(i + 1, data)

\* the files an export writes
written_by(i, data) ==
    IF export_outcome(Exports[i], data) = "file" THEN {FilePath(i)} ELSE {}

\* gamma_exposure_data of the analyzer create_gamma_exports builds: price
\* fetch, options fetch and calculation on a new GammaExposureAnalyzer
fresh_exposure_data(price, options) ==
    IF options = <<>> \/ price = None
    THEN NoFrame
    ELSE Frame(gamma_exposure_list(options, price.v))

\* the value of create_gamma_exports: whether a list or None is returned, the
\* list, and the files written meanwhile
exports_result(export_format, data) ==
    IF export_format = "all"
    THEN [export_format |-> export_format, returned |-> "list",
          exported_files |-> export_all(1, data),
          written |-> UNION { written_by(i, data) : i \in 1 .. Len(Exports) }]
    ELSE IF export_format \notin ExportFormats
    THEN [export_format |-> export_format, returned |-> "none",
          exported_files |-> <<>>, written |-> {}]
    ELSE LET i == CHOOSE j \in 1 .. Len(Exports) : Exports[j] = export_format
             outcome == export_outcome(export_format, data)
         IN IF outcome = "raise"
            THEN [export_format |-> export_format, returned |-> "none",
                  exported_files |-> <<>>, written |-> {}]
            ELSE [export_format |-> export_format, returned |-> "list",
                  exported_files |-> <<IF outcome = "file" THEN FilePath(i) ELSE None>>,
                  written |-> written_by(i, data)]

\* create_gamma_exports(symbol, export_format); quick_export passes its
\* arguments through
create_gamma_exports ==
    /\ program = "analyzer"
    /\ current_price' = market.price
    /\ options_data' = [i \in 1 .. Len(market.chain) |-> WithExpirationColumns(market.chain[i])]
    /\ gamma_exposure_data' = fresh_exposure_data(current_price', options_data')
    /\ \E export_format \in ExportFormats \cup {"json"}, caller \in {"create_gamma_exports", "quick_export"} :
         ret' = Returned(caller, exports_result(export_format, gamma_exposure_data'))
    /\ UNCHANGED <<dashboard_vars, program, market, app_vars>>

ExportNext == create_gamma_exports

ExportSpec == AnalyzerInit /\ [][ExportNext]_vars

(***************************************************************************)
(* streamlit_app.py: the expiration columns of create_gamma_heatmap        *)
(***************************************************************************)
\* largest number of matrix columns, and largest setting of the slider
MaxColumns == 14
MaxMonthsAhead == 3
\* "Limit to first 12 columns"
heatmap_column_limit == 12
MinutesPerDay == 1440

\* a column label: a YYYY-MM-DD date, kept as its distance in days from today,
\* or a label that strptime rejects
DateLabel(day) == [kind |-> "date", day |-> day]
TextLabel == [kind |-> "text", day |-> 0]

\* within_horizon that leaves out the day of the horizon
within_horizon_strict(col, months_ahead, now_minutes) ==
    col.day * MinutesPerDay < 30 * months_ahead * MinutesPerDay

\* col_date <= months_out, in minutes after today's midnight: col_date is a
\* midnight, months_out is now + timedelta(days=30 * months_ahead)
within_horizon(col, months_ahead, now_minutes) ==
    col.day * MinutesPerDay <= 30 * months_ahead * MinutesPerDay + now_minutes

\* the loop over gamma_matrix.columns: a date is kept when within the horizon,
\* a label that does not parse is kept
RECURSIVE relevant_columns(_, _, _)
relevant_columns(columns, months_ahead, now_minutes) ==
    IF columns = <<>> THEN <<>>
    ELSE (IF Head(columns).kind # "date"
             \/ within_horizon(Head(columns), months_ahead, now_minutes)
          THEN <<Head(columns)>> ELSE <<>>)
         \o relevant_columns(Tail(columns), months_ahead, now_minutes)

\* the columns of plot_matrix
heatmap_columns(columns, months_ahead, now_minutes) ==
    LET relevant == relevant_columns(columns, months_ahead, now_minutes)
    IN IF Len(relevant) > heatmap_column_limit
       THEN SubSeq(relevant, 1, heatmap_column_limit)
       ELSE relevant

\* the columns of a matrix: n expirations every step days from today on, in
\* ascending order, with an unparsable label put at position p (0: none)
MatrixColumns(n, step, p) ==
    LET dates == [i \in 1 .. n |-> DateLabel((i - 1) * step)]
    IN IF p = 0 THEN dates
       ELSE SubSeq(dates, 1, p - 1) \o <<TextLabel>> \o SubSeq(dates, p, n)

\* create_gamma_heatmap(gamma_matrix, current_price, symbol, months_ahead) on
\* a matrix that is not empty; the value keeps the arguments and the columns
\* plotted
create_gamma_heatmap ==
    /\ program = "analyzer"
    /\ \E n \in 1 .. MaxColumns - 1, step \in {8, 30}, p \in 0 .. MaxColumns,
          months_ahead \in 1 .. MaxMonthsAhead, now_minutes \in {0, MinutesPerDay - 1} :
         /\ p <= n + 1
         /\ ret' = Returned("create_gamma_heatmap",
                            [columns |-> MatrixColumns(n, step, p),
                             months_ahead |-> months_ahead,
                             now_minutes |-> now_minutes,
                             plotted |-> heatmap_columns(MatrixColumns(n, step, p),
                                                         months_ahead, now_minutes)])
    /\ UNCHANGED <<dashboard_vars, program, market, analyzer_vars, app_vars>>

\* the dashboard before any analysis: the heatmap is a function of its arguments
HeatmapInit == AnalyzerInit /\ market = [price |-> Num(20), chain |-> <<>>]

HeatmapNext == create_gamma_heatmap

HeatmapSpec == HeatmapInit /\ [][HeatmapNext]_vars

(***************************************************************************)
(* streamlit_app.main: one run of the script per rerun of the dashboard    *)
(***************************************************************************)
\* symbols of the quick-select buttons, and what the text input may hold:
\* one of them, another symbol, or nothing (texts as .upper().strip() leaves them)
PopularSymbols == {"SPY", "AAPL", "TSLA"}
TickerTexts == PopularSymbols \cup {"IBM", ""}

\* how the analysis of a ticker ends: results stored, an early return after
\* st.error, or an exception caught by the except clause
AnalysisOutcomes == {"stored", "returned", "raised"}

\* the run analyses when the button is pressed, on the first run of the
\* session and when the ticker differs from the last one
analysis_due(state, ticker, analyze_button) ==
    analyze_button \/ state.last_ticker = <<>> \/ state.last_ticker[1] # ticker

\* session_state after the analysis block; last_ticker is stored before the
\* analysis starts, analysis_results only when it completes
session_after(state, ticker, analyze_button, outcome) ==
    IF ticker = "" \/ ~analysis_due(state, ticker, analyze_button)
    THEN state
    ELSE [last_ticker |-> <<ticker>>,
          analysis_results |-> IF outcome = "stored"
                               THEN <<[ticker |-> ticker]>>
                               ELSE state.analysis_results]

\* whether the run reaches 'if analysis_results in st.session_state' and
\* renders the results section
results_rendered(state, ticker, analyze_button, outcome) ==
    /\ ticker # ""
    /\ analysis_due(state, ticker, analyze_button) => outcome = "stored"
    /\ session_after(state, ticker, analyze_button, outcome).analysis_results # <<>>

\* one run of main() with the widget values of the rerun
main_run(event, ticker, analyze_button, outcome) ==
    /\ session_state' = session_after(session_state, ticker, analyze_button, outcome)
    /\ ret' = Returned("streamlit_app.main",
                       [event |-> event,
                        ticker |-> ticker,
                        rendered |-> results_rendered(session_state, ticker,
                                                      analyze_button, outcome)])

\* a rerun without input change: first load, or another widget was touched
main_rerun ==
    /\ program = "analyzer"
    /\ \E outcome \in AnalysisOutcomes :
         main_run("rerun", ticker_input, FALSE, outcome)
    /\ UNCHANGED <<program, market, analyzer_vars, app_vars, ticker_input>>

\* the user edits the ticker text
main_ticker_edit ==
    /\ program = "analyzer"
    /\ \E text \in TickerTexts \ {ticker_input}, outcome \in AnalysisOutcomes :
         /\ ticker_input' = text
         /\ main_run("edit", text, FALSE, outcome)
    /\ UNCHANGED <<program, market, analyzer_vars, app_vars>>

\* the user clicks Analyze
main_analyze_click ==
    /\ program = "analyzer"
    /\ \E outcome \in AnalysisOutcomes :
         main_run("analyze", ticker_input, TRUE, outcome)
    /\ UNCHANGED <<program, market, analyzer_vars, app_vars, ticker_input>>

\* the user clicks a quick-select button: ticker and analyze_button are
\* overridden for this run, the text input keeps its value
main_quick_select ==
    /\ program = "analyzer"
    /\ \E symbol \in PopularSymbols, outcome \in AnalysisOutcomes :
         main_run("quick", symbol, TRUE, outcome)
    /\ UNCHANGED <<program, market, analyzer_vars, app_vars, ticker_input>>

DashboardInit == AnalyzerInit /\ market = [price |-> Num(20), chain |-> <<>>]

DashboardNext ==
    \/ main_rerun
    \/ main_ticker_edit
    \/ main_analyze_click
    \/ main_quick_select

DashboardSpec == DashboardInit /\ [][DashboardNext]_vars

(***************************************************************************)
(* Properties                                                              *)
(***************************************************************************)
\* the analyzer holds an exposure frame computed from its options_data
HasExposureFrame == gamma_exposure_data # NoFrame

\* number of exposure records emitted for one input option; a chain lists a
\* contract (expiration, class, strike) once
EmittedFor(option) ==
    Cardinality({ i \in 1 .. Len(gamma_exposure_data.rows) :
                    /\ gamma_exposure_data.rows[i].expiration = option.expiration
                    /\ gamma_exposure_data.rows[i].type = option.type
                    /\ gamma_exposure_data.rows[i].strike = option.strike })

PositiveNumber(x) == IsNum(x) /\ x.v > 0

SignOk(row) ==
    (/\ IsNum(row.open_interest) /\ row.open_interest.v >= 0
     /\ IsNum(row.gamma) /\ row.gamma.v >= 0)
    => /\ IsNum(row.gamma_exposure)
       /\ row.type = "call" => row.gamma_exposure.v <= 0
       /\ row.type = "put" => row.gamma_exposure.v >= 0

\* C2: every emitted exposure record with open interest >= 0 and gamma >= 0
\* has gamma_exposure <= 0 if it is a call and >= 0 if it is a put, in
\* GammaExposureAnalyzer.calculate_gamma_exposure and in
\* GammaCalculator.calculate_gamma_exposure.
C2_SignInvariant ==
    /\ \A i \in 1 .. Len(gamma_exposure_data.rows) : SignOk(gamma_exposure_data.rows[i])
    /\ \A i \in 1 .. Len(gamma_df.rows) : SignOk(gamma_df.rows[i])

\* the analyzer emitted a call with strictly negative and a put with strictly
\* positive exposure
C2_Witness ==
    /\ ret.op = "calculate_gamma_exposure"
    /\ \E i, j \in 1 .. Len(gamma_exposure_data.rows) :
          /\ gamma_exposure_data.rows[i].type = "call"
          /\ IsNum(gamma_exposure_data.rows[i].gamma_exposure)
          /\ gamma_exposure_data.rows[i].gamma_exposure.v < 0
          /\ gamma_exposure_data.rows[j].type = "put"
          /\ IsNum(gamma_exposure_data.rows[j].gamma_exposure)
          /\ gamma_exposure_data.rows[j].gamma_exposure.v > 0

\* the by-strike table a call of aggregate_gamma_by_strike returned
ReturnedByStrike ==
    /\ ret.op = "aggregate_gamma_by_strike"
    /\ ret.status = "ok"

\* C3: a non-empty by-strike table has exactly one king node; it holds the
\* maximum abs_gamma_exposure, and among the strikes tied for the maximum it
\* is the lowest.
C3_KingNodeUnique ==
    ReturnedByStrike =>
        LET table == ret.val
            kings == { i \in 1 .. Len(table) : table[i].is_king_node }
        IN /\ Len(table) > 0
           /\ Cardinality(kings) = 1
           /\ \A k \in kings : \A j \in 1 .. Len(table) :
                 /\ table[j].abs_gamma_exposure <= table[k].abs_gamma_exposure
                 /\ table[j].abs_gamma_exposure = table[k].abs_gamma_exposure
                      => table[k].strike <= table[j].strike

\* two strikes tie for a non-zero maximum and the lower one is the king node
C3_Witness ==
    /\ ReturnedByStrike
    /\ Len(ret.val) = 2
    /\ ret.val[1].abs_gamma_exposure = ret.val[2].abs_gamma_exposure
    /\ ret.val[1].abs_gamma_exposure > 0
    /\ ret.val[1].is_king_node

\* the three downstream operations C4 names
EmptyInputOps == {"aggregate_gamma_by_strike", "identify_gamma_levels", "analyze_market_sentiment"}

\* C4: after calculate_gamma_exposure processed a chain in which no record passes
\* the quality filters, aggregate_gamma_by_strike, identify_gamma_levels and
\* analyze_market_sentiment return an empty or absent result and do not raise.
C4_EmptyInputHandled ==
    (gamma_exposure_data = Frame(<<>>) /\ ret.op \in EmptyInputOps)
        => ret.status = "none"

\* C5: with a current price (spot) that is zero or negative, the exposure
\* computation fails fast with an error and produces no exposure records, in
\* GammaExposureAnalyzer.calculate_gamma_exposure and in GammaCalculator.
C5_NonPositiveSpotRejected ==
    /\ (/\ ret.op = "calculate_gamma_exposure"
        /\ options_data # <<>>
        /\ IsNum(current_price) /\ current_price.v <= 0)
           => (ret.status = "raised" /\ gamma_exposure_data = NoFrame)
    /\ (/\ ret.op \in {"GammaCalculator.__init__", "GammaCalculator.calculate_gamma_exposure"}
        /\ IsNum(market.price) /\ market.price.v <= 0)
           => (ret.status = "raised" /\ gamma_df = NoFrame)

\* the report a call of analyze_market_sentiment returned
ReturnedSentiment ==
    /\ ret.op = "analyze_market_sentiment"
    /\ ret.status = "ok"

\* sum of the per-contract gamma exposures at the strikes s with
\* 0.95 * price <= s <= 1.05 * price
NearMoneyTotal ==
    SeqSum([i \in 1 .. Len(gamma_exposure_data.rows) |->
              IF /\ 95 * current_price.v <= 100 * gamma_exposure_data.rows[i].strike
                 /\ 100 * gamma_exposure_data.rows[i].strike <= 105 * current_price.v
              THEN SkipNa(gamma_exposure_data.rows[i].gamma_exposure)
              ELSE 0])

\* C6: the regime is the Positive label iff net_gamma > 0 and
\* near_money_gamma > 0, the Negative label iff both are < 0, and the Mixed
\* label in every other case; near_money_gamma is the sum of the exposures at
\* the strikes within 5% of the current price.
C6_RegimeTotal ==
    ReturnedSentiment =>
        LET net == ret.val.net_gamma
            near == ret.val.near_money_gamma
        IN /\ near = NearMoneyTotal
           /\ ret.val.regime \in {PositiveRegime, NegativeRegime, MixedRegime}
           /\ ret.val.regime = PositiveRegime <=> (net > 0 /\ near > 0)
           /\ ret.val.regime = NegativeRegime <=> (net < 0 /\ near < 0)
           /\ ret.val.regime = MixedRegime
                <=> ~(net > 0 /\ near > 0) /\ ~(net < 0 /\ near < 0)

\* a Mixed regime from a positive net gamma and a negative near-money gamma
C6_Witness ==
    /\ ReturnedSentiment
    /\ ret.val.regime = MixedRegime
    /\ ret.val.net_gamma > 0
    /\ ret.val.near_money_gamma < 0

\* the sequence of exposures [-5, +3, +2, -1, +4] on five ascending strikes
FlipExample ==
    [i \in 1 .. 5 |->
       [strike |-> 10 * i,
        gamma_exposure |-> <<0 - 5, 3, 2, 0 - 1, 4>>[i]]]

\* C7: analyze_market_sentiment emits one flip point per pair of adjacent
\* strikes whose exposures are strictly positive vs strictly negative, at the
\* midpoint of the two strikes, in ascending order, and none for a pair in
\* which an exposure is zero; [-5, +3, +2, -1, +4] yields 3 flip points,
\* between indices 0-1, 2-3 and 3-4.
C7_FlipPoints ==
    /\ ReturnedSentiment =>
          LET table == gamma_by_strike(gamma_exposure_data.rows)
              flips == ret.val.gamma_flip_points
              opposite == { i \in 1 .. (Len(table) - 1) :
                              \/ table[i].gamma_exposure > 0 /\ table[i + 1].gamma_exposure < 0
                              \/ table[i].gamma_exposure < 0 /\ table[i + 1].gamma_exposure > 0 }
          IN /\ Len(flips) = Cardinality(opposite)
             /\ \A i \in opposite : \E j \in 1 .. Len(flips) :
                   /\ flips[j].from = table[i].strike
                   /\ flips[j].to = table[i + 1].strike
                   /\ flips[j].twice_strike = table[i].strike + table[i + 1].strike
             /\ \A j, k \in 1 .. Len(flips) : j < k => flips[j].from < flips[k].from
    /\ LET example == gamma_flip_candidates(FlipExample, 1)
       IN /\ Len(example) = 3
          /\ <<example[1].from, example[1].to, example[1].twice_strike>> = <<10, 20, 30>>
          /\ <<example[2].from, example[2].to, example[2].twice_strike>> = <<30, 40, 70>>
          /\ <<example[3].from, example[3].to, example[3].twice_strike>> = <<40, 50, 90>>

\* a report with one flip point between two strikes
C7_Witness ==
    /\ ReturnedSentiment
    /\ Len(ret.val.gamma_flip_points) = 1

\* the matrix a call of aggregate_gamma_by_expiration returned
ReturnedMatrix ==
    /\ ret.op = "aggregate_gamma_by_expiration"
    /\ ret.status = "ok"

\* C8: the cells of the gamma matrix sum to the sum of gamma_exposure over the
\* by-strike table, and each matrix row summed across expirations equals that
\* strike's by-strike gamma_exposure.
C8_MatrixRoundTrip ==
    ReturnedMatrix =>
        LET matrix == ret.val
            table == gamma_by_strike(gamma_exposure_data.rows)
        IN /\ Len(matrix.index) = Len(table)
           /\ \A i \in 1 .. Len(table) :
                 /\ matrix.index[i] = table[i].strike
                 /\ SeqSum(matrix.values[i]) = table[i].gamma_exposure
           /\ SeqSum([i \in 1 .. Len(matrix.index) |-> SeqSum(matrix.values[i])])
                = SeqSum([i \in 1 .. Len(table) |-> table[i].gamma_exposure])

\* a one-strike matrix with two expirations, both cells non-zero
C8_Witness ==
    /\ ReturnedMatrix
    /\ Len(ret.val.columns) = 2
    /\ \E i \in 1 .. Len(ret.val.index) :
          ret.val.values[i][1] # 0 /\ ret.val.values[i][2] # 0

Shuffles(n) == { p \in [1 .. n -> 1 .. n] : \A i, j \in 1 .. n : p[i] = p[j] => i = j }
Permute(rows, p) == [i \in 1 .. Len(rows) |-> rows[p[i]]]

\* C9: aggregate_gamma_by_strike returns the same table (strikes in ascending
\* order, sums, king node) for every permutation of the exposure records, in
\* GammaExposureAnalyzer and in GammaCalculator.
C9_OrderIndependence ==
    /\ ReturnedByStrike =>
          \A p \in Shuffles(Len(gamma_exposure_data.rows)) :
              gamma_by_strike(Permute(gamma_exposure_data.rows, p)) = ret.val
    /\ (ret.op = "GammaCalculator.aggregate_gamma_by_strike" /\ ret.status = "ok") =>
          \A p \in Shuffles(Len(gamma_df.rows)) :
              GammaCalculator_by_strike(Permute(gamma_df.rows, p)) = ret.val

\* a table built from records that are not in strike order
C9_Witness ==
    /\ ReturnedByStrike
    /\ Len(gamma_exposure_data.rows) = 2
    /\ gamma_exposure_data.rows[1].strike > gamma_exposure_data.rows[2].strike
    /\ ret.val[1].gamma_exposure # 0
    /\ ret.val[2].gamma_exposure # 0

\* processing the row raises inside the try block
RaisesInLoop(option) == option_outcome(option) = "raise"
NotRaisingInLoop(option) == ~RaisesInLoop(option)

\* C10: a record whose processing raises inside calculate_gamma_exposure does
\* not abort the batch: every other valid record is emitted exactly once, and
\* the exposure set equals that of the chain without the failing records.
C10_FailSoftPerRecord ==
    (HasExposureFrame /\ IsNum(current_price)) =>
        /\ gamma_exposure_data.rows
             = gamma_exposure_list(SelectSeq(options_data, NotRaisingInLoop), current_price.v)
        /\ \A i \in 1 .. Len(options_data) :
              (/\ NotRaisingInLoop(options_data[i])
               /\ PositiveNumber(options_data[i].openInterest)
               /\ PositiveNumber(options_data[i].impliedVolatility))
                  => EmittedFor(options_data[i]) = 1

\* a failing record listed before a valid one, which is still emitted
C10_Witness ==
    /\ ret.op = "calculate_gamma_exposure"
    /\ HasExposureFrame
    /\ Len(options_data) = 2
    /\ RaisesInLoop(options_data[1])
    /\ Len(gamma_exposure_data.rows) = 1
    /\ gamma_exposure_data.rows[1].strike = options_data[2].strike


\* the four fields of a Greeks record
GreekFields == {"delta", "gamma", "vanna", "charm"}

\* C11: black_scholes_greeks returns, without raising, a record with exactly
\* the fields delta, gamma, vanna, charm; when the time to expiry is <= 0 or
\* the volatility is <= 0 all four are 0, and GammaCalculator.black_scholes_gamma
\* returns 0 in the same cases.
C11_DegenerateGreeks ==
    /\ ret.op = "black_scholes_greeks" =>
          /\ ret.status = "ok"
          /\ DOMAIN ret.val.greeks = GreekFields
          /\ (ret.val.T <= 0 \/ ret.val.sigma <= 0) =>
                \A f \in GreekFields : ret.val.greeks[f] = Num(0)
    /\ ret.op = "black_scholes_gamma" =>
          /\ ret.status = "ok"
          /\ (ret.val.T <= 0 \/ ret.val.sigma <= 0) => ret.val.gamma = Num(0)

\* a call with a regular price, a positive time to expiry and zero volatility
C11_Witness ==
    /\ ret.op = "black_scholes_greeks"
    /\ ret.val.S = Num(20)
    /\ ret.val.T > 0
    /\ ret.val.sigma = 0
    /\ ret.val.K = 20


\* the exposure records without record i
Without(rows, i) == SubSeq(rows, 1, i - 1) \o SubSeq(rows, i + 1, Len(rows))

\* the value of column col at strike k in a by-strike table, 0 without such a row
AtStrike(table, k, col) ==
    IF \E j \in 1 .. Len(table) : table[j].strike = k
    THEN table[CHOOSE j \in 1 .. Len(table) : table[j].strike = k][col]
    ELSE 0

\* the value of column col at expiration e in a by-expiration table
AtExpiration(table, e, col) ==
    IF \E j \in 1 .. Len(table) : table[j].expiration = e
    THEN table[CHOOSE j \in 1 .. Len(table) : table[j].expiration = e][col]
    ELSE 0

\* the cell (k, e) of a matrix, 0 where the matrix has no such row or column
AtCell(matrix, k, e) ==
    IF /\ \E i \in 1 .. Len(matrix.index) : matrix.index[i] = k
       /\ \E j \in 1 .. Len(matrix.columns) : matrix.columns[j] = e
    THEN matrix.values[CHOOSE i \in 1 .. Len(matrix.index) : matrix.index[i] = k]
                      [CHOOSE j \in 1 .. Len(matrix.columns) : matrix.columns[j] = e]
    ELSE 0

ExposureColumns == {"gamma_exposure", "vanna_exposure", "charm_exposure"}

\* the record has all-zero Greeks and zero exposures
ZeroExposureRecord(row) ==
    /\ \A f \in GreekFields : row[f] = Num(0)
    /\ \A col \in ExposureColumns : row[col] = Num(0)

\* every exposure sum of the aggregates of rows equals that of rest
SameExposureSums(rows, rest) ==
    LET strikes == { rows[j].strike : j \in 1 .. Len(rows) }
        expirations == { rows[j].expiration : j \in 1 .. Len(rows) }
        by_strike == gamma_by_strike(rows)
        by_strike_rest == gamma_by_strike(rest)
        by_exp == agg_by_expiration(rows)
        by_exp_rest == agg_by_expiration(rest)
        matrix == [col \in ExposureColumns |-> exposure_matrix(rows, col)]
        matrix_rest == [col \in ExposureColumns |-> exposure_matrix(rest, col)]
    IN /\ \A k \in strikes : \A col \in {"gamma_exposure", "vanna_exposure"} :
              AtStrike(by_strike, k, col) = AtStrike(by_strike_rest, k, col)
       /\ \A e \in expirations :
              \A col \in {"total_gamma_exposure", "total_vanna_exposure"} :
                  AtExpiration(by_exp, e, col) = AtExpiration(by_exp_rest, e, col)
       /\ \A k \in strikes : \A e \in expirations : \A col \in ExposureColumns :
              AtCell(matrix[col], k, e) = AtCell(matrix_rest[col], k, e)

\* the strike flagged as king node, in a sequence of at most one strike
KingStrike(table) ==
    LET IsKing(row) == row.is_king_node
        kings == SelectSeq(table, IsKing)
    IN [j \in 1 .. Len(kings) |-> kings[j].strike]

\* the regime computed from the records themselves
RegimeOf(rows, price) ==
    market_regime(
        SeqSum([j \in 1 .. Len(rows) |-> SkipNa(rows[j].gamma_exposure)]),
        SeqSum([j \in 1 .. Len(rows) |->
                  IF /\ 95 * price <= 100 * rows[j].strike
                     /\ 100 * rows[j].strike <= 105 * price
                  THEN SkipNa(rows[j].gamma_exposure) ELSE 0]))

ReturnedLevels ==
    /\ ret.op = "identify_gamma_levels"
    /\ ret.status = "ok"

\* ten times the 70th percentile of a non-empty sequence of values, by linear
\* interpolation between order statistics
TenTimesQuantile70(values) ==
    LET Less(x, y) == x < y
        a == SortSeq(values, Less)
        lo == (7 * (Len(a) - 1)) \div 10
        frac == (7 * (Len(a) - 1)) % 10
    IN IF frac = 0
       THEN 10 * a[lo + 1]
       ELSE 10 * a[lo + 1] + frac * (a[lo + 2] - a[lo + 1])

\* the strikes of one side of the price whose abs_gamma_exposure is at or above
\* the side's 70th percentile: the top 3 of them, largest first
LevelsAtOrAbove(side) ==
    LET abs_values == [j \in 1 .. Len(side) |-> side[j].abs_gamma_exposure]
        AtOrAbove(row) == 10 * row.abs_gamma_exposure >= TenTimesQuantile70(abs_values)
        top == nlargest(3, SelectSeq(side, AtOrAbove))
    IN [j \in 1 .. Len(top) |-> top[j].strike]

\* C13: the resistance (support) levels are the top 3, by abs_gamma_exposure
\* descending, of the strikes strictly above (below) the current price whose
\* abs_gamma_exposure is at or above the 70th percentile of their partition,
\* so a non-empty partition yields at least one level.
C13_LevelsAtOrAboveQuantile ==
    (ReturnedLevels /\ IsNum(current_price)) =>
        LET table == gamma_by_strike(gamma_exposure_data.rows)
            IsAbove(row) == row.strike > current_price.v
            IsBelow(row) == row.strike < current_price.v
            above == SelectSeq(table, IsAbove)
            below == SelectSeq(table, IsBelow)
        IN /\ Len(above) > 0 =>
                /\ ret.val.resistance_levels = LevelsAtOrAbove(above)
                /\ Len(ret.val.resistance_levels) > 0
           /\ Len(below) > 0 =>
                /\ ret.val.support_levels = LevelsAtOrAbove(below)
                /\ Len(ret.val.support_levels) > 0


\* two emitted records of the same contract terms, one per option class
SameTermsOtherClass(a, b) ==
    /\ a.strike = b.strike
    /\ a.expiration = b.expiration
    /\ a.open_interest = b.open_interest
    /\ a.implied_volatility = b.implied_volatility
    /\ a.type = "call"
    /\ b.type = "put"

\* -open_interest * greek * 100 * spot * 0.01, NaN when the Greek is NaN
NegativeOIScaled(row, greek, S) ==
    IF IsNum(row[greek]) THEN Num(0 - row.open_interest.v * row[greek].v * S) ELSE NaN

\* C14: a call and a put with the same strike, expiration, open interest and
\* implied volatility get the same vanna_exposure and the same charm_exposure,
\* each -open_interest * vanna (charm) * 100 * spot * 0.01, and gamma_exposure
\* values that are negations of each other.
C14_VannaCharmSignConvention ==
    (HasExposureFrame /\ IsNum(current_price)) =>
        \A i, j \in 1 .. Len(gamma_exposure_data.rows) :
            LET call == gamma_exposure_data.rows[i]
                put == gamma_exposure_data.rows[j]
            IN SameTermsOtherClass(call, put) =>
                  /\ call.vanna_exposure = put.vanna_exposure
                  /\ call.charm_exposure = put.charm_exposure
                  /\ call.vanna_exposure = NegativeOIScaled(call, "vanna", current_price.v)
                  /\ put.vanna_exposure = NegativeOIScaled(put, "vanna", current_price.v)
                  /\ call.charm_exposure = NegativeOIScaled(call, "charm", current_price.v)
                  /\ put.charm_exposure = NegativeOIScaled(put, "charm", current_price.v)
                  /\ call.gamma_exposure = FNeg(put.gamma_exposure)
                  /\ put.gamma_exposure = FNeg(call.gamma_exposure)

\* a call and a put of the same terms with non-zero vanna, charm and gamma
\* exposures
C14_Witness ==
    /\ ret.op = "calculate_gamma_exposure"
    /\ ret.status = "ok"
    /\ \E i, j \in 1 .. Len(gamma_exposure_data.rows) :
          /\ SameTermsOtherClass(gamma_exposure_data.rows[i], gamma_exposure_data.rows[j])
          /\ IsNum(gamma_exposure_data.rows[i].vanna_exposure)
          /\ gamma_exposure_data.rows[i].vanna_exposure.v # 0
          /\ gamma_exposure_data.rows[i].charm_exposure.v # 0
          /\ gamma_exposure_data.rows[i].gamma_exposure.v < 0


\* C15: in the report of analyze_market_sentiment total_positive_gamma >= 0,
\* total_negative_gamma <= 0, and net_gamma = total_positive_gamma +
\* total_negative_gamma = the sum of gamma_exposure over all exposure records.
C15_RegimeTotals ==
    ReturnedSentiment =>
        /\ ret.val.total_positive_gamma >= 0
        /\ ret.val.total_negative_gamma <= 0
        /\ ret.val.net_gamma = ret.val.total_positive_gamma + ret.val.total_negative_gamma
        /\ ret.val.net_gamma
             = SeqSum([i \in 1 .. Len(gamma_exposure_data.rows) |->
                         SkipNa(gamma_exposure_data.rows[i].gamma_exposure)])

\* a report with a positive strike and a negative strike
C15_Witness ==
    /\ ReturnedSentiment
    /\ ret.val.total_positive_gamma > 0
    /\ ret.val.total_negative_gamma < 0
    /\ ret.val.net_gamma # 0


\* the exposure column a matrix operation pivots
MatrixColumn ==
    [aggregate_gamma_by_expiration |-> "gamma_exposure",
     aggregate_vanna_by_expiration |-> "vanna_exposure",
     aggregate_charm_by_expiration |-> "charm_exposure"]

\* a call of one of the three matrix operations returned a matrix
ReturnedAnyMatrix ==
    /\ ret.op \in DOMAIN MatrixColumn
    /\ ret.status = "ok"

\* the exposure records of the cell (k, e)
CellRecords(k, e) ==
    { i \in 1 .. Len(gamma_exposure_data.rows) :
        /\ gamma_exposure_data.rows[i].strike = k
        /\ gamma_exposure_data.rows[i].expiration = e }

\* C16: each of the gamma, vanna and charm matrices has one row per distinct
\* strike in ascending order and one column per distinct expiration in
\* ascending order; a cell holds the sum of the exposure over all records
\* (calls and puts) of its strike and expiration, and 0 when there is none.
C16_MatrixStructure ==
    ReturnedAnyMatrix =>
        LET matrix == ret.val
            col == MatrixColumn[ret.op]
            rows == gamma_exposure_data.rows
        IN /\ { matrix.index[i] : i \in 1 .. Len(matrix.index) }
                = { rows[i].strike : i \in 1 .. Len(rows) }
           /\ \A i, j \in 1 .. Len(matrix.index) :
                 i < j => matrix.index[i] < matrix.index[j]
           /\ { matrix.columns[j] : j \in 1 .. Len(matrix.columns) }
                = { rows[i].expiration : i \in 1 .. Len(rows) }
           /\ \A i, j \in 1 .. Len(matrix.columns) :
                 i < j => matrix.columns[i] < matrix.columns[j]
           /\ DOMAIN matrix.values = 1 .. Len(matrix.index)
           /\ \A i \in 1 .. Len(matrix.index) :
                 /\ DOMAIN matrix.values[i] = 1 .. Len(matrix.columns)
                 /\ \A j \in 1 .. Len(matrix.columns) :
                       /\ matrix.values[i][j]
                            = SeqSum([n \in 1 .. Len(rows) |->
                                        IF n \in CellRecords(matrix.index[i], matrix.columns[j])
                                        THEN SkipNa(rows[n][col]) ELSE 0])
                       /\ CellRecords(matrix.index[i], matrix.columns[j]) = {}
                            => matrix.values[i][j] = 0

\* a charm matrix of two strikes and two expirations with two empty cells,
\* built from a call and a put
C16_Witness ==
    /\ ret.op = "aggregate_charm_by_expiration"
    /\ ret.status = "ok"
    /\ Len(ret.val.index) = 2
    /\ Len(ret.val.columns) = 2
    /\ ret.val.values[1][2] # 0
    /\ ret.val.values[2][1] # 0
    /\ CellRecords(ret.val.index[1], ret.val.columns[1]) = {}
    /\ \E i, j \in 1 .. Len(gamma_exposure_data.rows) :
          /\ gamma_exposure_data.rows[i].type = "call"
          /\ gamma_exposure_data.rows[j].type = "put"


\* a call of one of the two by-expiration aggregates returned its table
ReturnedByExpiration ==
    /\ ret.op \in {"export_gamma_by_expiration", "analyze_expiration_impact"}
    /\ ret.status = "ok"

\* the summed gamma exposure of a row of the returned by-expiration table
TotalGammaOf(row) ==
    IF ret.op = "export_gamma_by_expiration"
    THEN row.total_gamma_exposure
    ELSE row.gamma_exposure

Max(a, b) == IF a >= b THEN a ELSE b

\* C17: in both by-expiration aggregates every row has gamma_impact_score =
\* |total gamma exposure| / max(days_to_expiration, 1): the divisor is never
\* zero and the score is never negative.
C17_GammaImpactScore ==
    ReturnedByExpiration =>
        \A i \in 1 .. Len(ret.val) :
            LET row == ret.val[i]
                score == row.gamma_impact_score
            IN /\ score.denominator # 0
               /\ score.numerator * score.denominator >= 0
               /\ score.numerator * Max(row.days_to_expiration, 1)
                    = Abs(TotalGammaOf(row)) * score.denominator

\* an exported table with an expiration of today and a later expiration whose
\* total is not zero
C17_Witness ==
    /\ ret.op = "export_gamma_by_expiration"
    /\ ret.status = "ok"
    /\ Len(ret.val) = 2
    /\ ret.val[1].days_to_expiration = 0
    /\ ret.val[2].days_to_expiration = 2
    /\ ret.val[2].total_gamma_exposure # 0


\* a row of the fetched frame as the option record GammaExposureAnalyzer reads
AnalyzerOption(row) ==
    [expiration |-> row.expiration, type |-> row.type, strike |-> row.strike,
     openInterest |-> row.oi, impliedVolatility |-> row.iv,
     days_to_expiration |-> row.dte, time_to_expiration |-> row.dte]

\* C18: for the same spot, rate and option records GammaCalculator and
\* GammaExposureAnalyzer emit the same records with the same gamma_exposure,
\* sign * openInterest * gamma * 100 * spot^2 * 0.01 with sign -1 for a call and
\* +1 for a put, both skipping zero open interest and non-positive volatility.
C18_ImplementationsAgree ==
    (ret.op = "GammaCalculator.calculate_gamma_exposure" /\ IsNum(spot_price)) =>
        LET options == [i \in 1 .. Len(options_df.rows) |->
                          AnalyzerOption(options_df.rows[i])]
            expected == gamma_exposure_list(options, spot_price.v)
        IN /\ Len(gamma_df.rows) = Len(expected)
           /\ \A i \in 1 .. Len(expected) :
                 /\ gamma_df.rows[i].strike = expected[i].strike
                 /\ gamma_df.rows[i].type = expected[i].type
                 /\ gamma_df.rows[i].gamma_exposure = expected[i].gamma_exposure
                 /\ IsNum(expected[i].gamma) =>
                       expected[i].gamma_exposure
                         = Num((IF expected[i].type = "call" THEN 0 - 1 ELSE 1)
                               * expected[i].open_interest.v * expected[i].gamma.v
                               * spot_price.v * spot_price.v)


\* abs_gamma_exposure of a strike of the by-strike table
AbsAt(table, k) == AtStrike(table, k, "abs_gamma_exposure")

\* a list of at most 3 strikes of the table, all on one side of the price,
\* without repetition, in descending order of abs_gamma_exposure
LevelListOk(levels, table, OnSide(_)) ==
    /\ Len(levels) <= 3
    /\ \A j \in 1 .. Len(levels) :
          /\ \E n \in 1 .. Len(table) : table[n].strike = levels[j]
          /\ OnSide(levels[j])
    /\ \A j, k \in 1 .. Len(levels) :
          j < k => /\ levels[j] # levels[k]
                   /\ AbsAt(table, levels[j]) >= AbsAt(table, levels[k])

\* C19: every resistance level is a strike strictly above the current price and
\* every support level a strike strictly below it; each list has at most 3
\* entries in descending order of abs_gamma_exposure; the lists are disjoint
\* and a strike equal to the current price is in neither.
C19_LevelsPartition ==
    (ReturnedLevels /\ IsNum(current_price)) =>
        LET table == gamma_by_strike(gamma_exposure_data.rows)
            Above(k) == k > current_price.v
            Below(k) == k < current_price.v
            resistance == ret.val.resistance_levels
            support == ret.val.support_levels
        IN /\ LevelListOk(resistance, table, Above)
           /\ LevelListOk(support, table, Below)
           /\ \A j \in 1 .. Len(resistance) : \A k \in 1 .. Len(support) :
                 resistance[j] # support[k]
           /\ \A j \in 1 .. Len(resistance) : resistance[j] # current_price.v
           /\ \A k \in 1 .. Len(support) : support[k] # current_price.v

\* three resistance levels and a support level, from a table that has a
\* strike at the current price whose exposure exceeds that of a level
C19_Witness ==
    /\ ReturnedLevels
    /\ Len(ret.val.resistance_levels) = 3
    /\ Len(ret.val.support_levels) = 1
    /\ LET table == gamma_by_strike(gamma_exposure_data.rows)
       IN /\ AbsAt(table, ret.val.resistance_levels[1])
               > AbsAt(table, ret.val.resistance_levels[3])
          /\ AbsAt(table, 20) > AbsAt(table, ret.val.resistance_levels[3])


\* the sum of the values a function of the rows takes over a table
SumOver(table, value(_)) ==
    SeqSum([i \in 1 .. Len(table) |-> value(table[i])])

\* C20: the by-expiration aggregate has exactly one row per distinct
\* expiration of the exposure records, in ascending days_to_expiration order;
\* its options_count values sum to the number of exposure records and its
\* total gamma exposures sum to the total of the by-strike aggregate.
C20_ByExpirationAggregate ==
    ReturnedByExpiration =>
        LET rows == gamma_exposure_data.rows
            table == ret.val
            OptionsCount(row) == row.options_count
            StrikeGamma(row) == row.gamma_exposure
        IN /\ Len(table) = Cardinality({ rows[i].expiration : i \in 1 .. Len(rows) })
           /\ \A i \in 1 .. Len(rows) :
                 \E n \in 1 .. Len(table) : table[n].expiration = rows[i].expiration
           /\ \A j, k \in 1 .. Len(table) :
                 j < k => table[j].days_to_expiration <= table[k].days_to_expiration
           /\ ret.op = "export_gamma_by_expiration" =>
                 SumOver(table, OptionsCount) = Len(rows)
           /\ SumOver(table, TotalGammaOf) = SumOver(gamma_by_strike(rows), StrikeGamma)

\* C21: an expiration d days after the analysis date (d >= 0) gets
\* daysToExpiration = d from both get_options_data and fetch_options_chain,
\* whatever the time of day; the value is never negative.
C21_DaysToExpiration ==
    /\ ret.op = "get_options_data" =>
          \A i \in 1 .. Len(options_data) :
              /\ options_data[i].days_to_expiration = options_data[i].expiration
              /\ options_data[i].days_to_expiration >= 0
    /\ ret.op = "fetch_options_chain" =>
          \A i \in 1 .. Len(options_df.rows) :
              /\ options_df.rows[i].dte = options_df.rows[i].expiration
              /\ options_df.rows[i].dte >= 0

\* the net gamma exposure changes sign at position i of a by-strike table:
\* it is zero there, or of the opposite sign to that of an adjacent strike
ChangesSignAt(table, i) ==
    \/ table[i].gamma_exposure = 0
    \/ \E j \in {i - 1, i + 1} \cap (1 .. Len(table)) :
          table[i].gamma_exposure * table[j].gamma_exposure < 0

\* C22: for a non-empty by-strike aggregate the zero_gamma_level returned by
\* find_gamma_levels is a strike at which the net gamma exposure changes sign;
\* for an empty aggregate find_gamma_levels returns an empty dictionary.
C22_ZeroGammaLevel ==
    (ret.op = "GammaCalculator.find_gamma_levels" /\ ret.status = "ok") =>
        LET table == ret.val.aggregated_df
            levels == ret.val.levels
        IN IF table = <<>>
           THEN DOMAIN levels = {}
           ELSE \E i \in 1 .. Len(table) :
                   /\ table[i].strike = levels.zero_gamma_level
                   /\ ChangesSignAt(table, i)

\* the derived-view operations of the analyzer
DerivedViews ==
    {"aggregate_gamma_by_strike", "aggregate_gamma_by_expiration",
     "aggregate_vanna_by_expiration", "aggregate_charm_by_expiration",
     "identify_gamma_levels", "analyze_market_sentiment", "generate_trading_signals"}

\* calculate_gamma_exposure has produced no data so far: the provider's
\* snapshot is fixed, so data once produced would still be there
NeverProducedData == gamma_exposure_data.rows = <<>>

\* C23: on an analyzer on which calculate_gamma_exposure has never produced
\* data every derived view returns None without raising, and
\* calculate_gamma_exposure returns None and leaves gamma_exposure_data
\* unchanged when options data or current price is missing.
C23_CallOrder ==
    /\ [](ret.op \in DerivedViews /\ NeverProducedData => ret.status = "none")
    /\ [][(calculate_gamma_exposure /\ (options_data = <<>> \/ current_price = None))
            => (ret'.status = "none" /\ UNCHANGED gamma_exposure_data)]_vars

\* the steps of run_complete_analysis in the order of the code
RunOrder ==
    <<"get_current_price", "get_options_data", "calculate_gamma_exposure",
      "analyze_market_sentiment", "generate_trading_signals", "plots">>

\* which of the three fetch and calculation steps have succeeded
PriceFetched == current_price # None
OptionsFetched == options_data # <<>>
ExposureCalculated == gamma_exposure_data # NoFrame /\ gamma_exposure_data.rows # <<>>

\* C24: run_complete_analysis executes price fetch, options fetch, exposure
\* calculation, sentiment, signals and plots strictly in that order; it
\* returns a report only if the first three all succeeded, and returns None at
\* the first of them that fails, without executing a later step.
C24_PipelineOrdering ==
    ret.op = "run_complete_analysis" =>
        LET executed == ret.val.executed
            n == Len(executed)
        IN /\ n \in 1 .. Len(RunOrder)
           /\ executed = SubSeq(RunOrder, 1, n)
           /\ n >= 2 => PriceFetched
           /\ n >= 3 => OptionsFetched
           /\ n >= 4 => ExposureCalculated
           /\ ret.status = "ok" =>
                 /\ executed = RunOrder
                 /\ PriceFetched /\ OptionsFetched /\ ExposureCalculated
                 /\ ret.val.report # None
           /\ ret.status = "none" =>
                 /\ ret.val.report = None
                 /\ \/ n = 1 /\ ~PriceFetched
                    \/ n = 2 /\ ~OptionsFetched
                    \/ n = 3 /\ ~ExposureCalculated

\* a run that returned its report after all six steps, with the king-node
\* signal and the regime signal among its signals
C24_Witness ==
    /\ ret.op = "run_complete_analysis"
    /\ ret.status = "ok"
    /\ ret.val.executed = RunOrder
    /\ Len(ret.val.report.signals) >= 2

\* a step of one of the derived views
DerivedViewStep ==
    \/ aggregate_gamma_by_strike
    \/ aggregate_gamma_by_expiration
    \/ aggregate_vanna_by_expiration
    \/ aggregate_charm_by_expiration
    \/ identify_gamma_levels
    \/ analyze_market_sentiment
    \/ generate_trading_signals

\* the value the last derived view returned is the one the same view returns
\* on the analyzer as it is now
SameResultAgain ==
    /\ ret.op = "aggregate_gamma_by_strike"
          => ret = ViewOf("aggregate_gamma_by_strike", gamma_by_strike)
    /\ ret.op = "aggregate_gamma_by_expiration"
          => ret = ViewOf("aggregate_gamma_by_expiration", gamma_matrix)
    /\ ret.op = "aggregate_vanna_by_expiration"
          => ret = ViewOf("aggregate_vanna_by_expiration", vanna_matrix)
    /\ ret.op = "aggregate_charm_by_expiration"
          => ret = ViewOf("aggregate_charm_by_expiration", charm_matrix)
    /\ ret.op = "identify_gamma_levels"
          => ret = ViewOf("identify_gamma_levels", levels_view)
    /\ ret.op = "analyze_market_sentiment"
          => ret = ViewOf("analyze_market_sentiment", sentiment_view)
    /\ ret.op = "generate_trading_signals"
          => ret = ViewOf("generate_trading_signals", signals_view)

\* C25: the derived views leave current_price, options_data and
\* gamma_exposure_data unchanged (is_king_node is set on the fresh by-strike
\* table only), so a view called again, after any other views, returns the
\* same result.
C25_ViewsFrame ==
    /\ [][DerivedViewStep => UNCHANGED analyzer_vars]_vars
    /\ []SameResultAgain
    /\ [](\A i \in 1 .. Len(gamma_exposure_data.rows) :
             "is_king_node" \notin DOMAIN gamma_exposure_data.rows[i])

\* the signals of an analyzer holding two exposure records, one of them at
\* the king strike
C25_Witness ==
    /\ ret.op = "generate_trading_signals"
    /\ ret.status = "ok"
    /\ Len(gamma_exposure_data.rows) = 2
    /\ \E i \in 1 .. Len(ret.val) : ret.val[i].signal = "King Node (Positive)"

\* the exposure records of the options and the price the analyzer holds now
RecordsOfCurrentInputs ==
    IF options_data = <<>> \/ current_price = None
    THEN <<>>
    ELSE gamma_exposure_list(options_data, current_price.v)

\* C26: after calculate_gamma_exposure the exposure table holds exactly the
\* records of the analyzer's current options_data and current_price: a re-run
\* on unchanged inputs gives an equal table, records are never accumulated or
\* duplicated, and nothing of an earlier snapshot survives once options_data
\* has been replaced.
C26_RecalculationReplaces ==
    ret.op = "calculate_gamma_exposure" =>
        gamma_exposure_data.rows = RecordsOfCurrentInputs

\* C27: every element of the list returned by create_gamma_exports /
\* quick_export (and by export_all) is the path of a file that was written;
\* in export_all an export that fails or returns nothing does not keep the
\* others from running; an export that produces no file adds no entry.
C27_ExportedFilesWritten ==
    (ret.op \in {"create_gamma_exports", "quick_export"} /\ ret.val.returned = "list") =>
        LET exported_files == ret.val.exported_files
        IN /\ \A i \in 1 .. Len(exported_files) : exported_files[i] \in ret.val.written
           /\ Len(exported_files) = Cardinality(ret.val.written)
           /\ ret.val.export_format = "all" =>
                 \A i \in 1 .. Len(Exports) :
                     export_outcome(Exports[i], gamma_exposure_data) = "file"
                        => \E j \in 1 .. Len(exported_files) : exported_files[j] = FilePath(i)

\* C28: every exposure record carries gamma_exposure, vanna_exposure and
\* charm_exposure, and whenever there are exposure records
\* aggregate_vanna_by_expiration and aggregate_charm_by_expiration return
\* matrices with the strike rows and the expiration columns of the matrix of
\* aggregate_gamma_by_expiration.
C28_VannaCharmAccompanyGamma ==
    /\ \A i \in 1 .. Len(gamma_exposure_data.rows) :
          ExposureColumns \subseteq DOMAIN gamma_exposure_data.rows[i]
    /\ (ret.op \in DOMAIN MatrixColumn /\ gamma_exposure_data.rows # <<>>) =>
          /\ ret.status = "ok"
          /\ ret.val.index = gamma_matrix(gamma_exposure_data.rows).index
          /\ ret.val.columns = gamma_matrix(gamma_exposure_data.rows).columns
          /\ Len(ret.val.values) = Len(ret.val.index)
          /\ \A i \in 1 .. Len(ret.val.values) :
                Len(ret.val.values[i]) = Len(ret.val.columns)

\* a vanna matrix of two strikes and two expirations, one strike holding only
\* a record without vanna exposure
C28_Witness ==
    /\ ret.op = "aggregate_vanna_by_expiration"
    /\ ret.status = "ok"
    /\ Len(ret.val.index) = 2
    /\ Len(ret.val.columns) = 2
    /\ \E i \in 1 .. 2 : \A j \in 1 .. 2 : ret.val.values[i][j] = 0
    /\ \E i, j \in 1 .. 2 : ret.val.values[i][j] # 0

\* the column may be displayed: its label is no date, or a date on or before
\* the day of the horizon now + 30 * months_ahead days
Displayable(col, months_ahead) ==
    col.kind = "date" => col.day <= 30 * months_ahead

\* positions of the displayable columns of a matrix
DisplayablePositions(columns, months_ahead) ==
    { i \in 1 .. Len(columns) : Displayable(columns[i], months_ahead) }

\* C29: the heatmap displays, in their original order, exactly the columns
\* dated on or before the horizon together with the columns whose label is no
\* date, truncated to the first 12; no column dated after the horizon is
\* displayed.
C29_HeatmapColumns ==
    (ret.op = "create_gamma_heatmap" /\ ret.status = "ok") =>
        LET columns == ret.val.columns
            plotted == ret.val.plotted
            eligible == DisplayablePositions(columns, ret.val.months_ahead)
            \* the positions of the first 12 displayable columns
            shown == { i \in eligible :
                         Cardinality({ j \in eligible : j < i }) < heatmap_column_limit }
        IN /\ Len(plotted) = Cardinality(shown)
           /\ \A k \in 1 .. Len(plotted) :
                 \E i \in shown :
                    /\ plotted[k] = columns[i]
                    /\ Cardinality({ j \in shown : j < i }) = k - 1
           /\ \A k \in 1 .. Len(plotted) :
                 plotted[k].kind = "date" => plotted[k].day <= 30 * ret.val.months_ahead

\* a matrix of which one column lies after the horizon and one is no date:
\* twelve columns are displayed and a displayable column is cut off
C29_Witness ==
    /\ ret.op = "create_gamma_heatmap"
    /\ ret.status = "ok"
    /\ Len(ret.val.columns) = MaxColumns
    /\ Len(ret.val.plotted) = heatmap_column_limit
    /\ ret.val.now_minutes > 0
    /\ \E i \in 1 .. Len(ret.val.columns) : ret.val.columns[i].kind = "text"
    /\ \E i \in 1 .. Len(ret.val.columns) :
          /\ ret.val.columns[i].kind = "date"
          /\ ret.val.columns[i].day > 30 * ret.val.months_ahead
    /\ Cardinality(DisplayablePositions(ret.val.columns, ret.val.months_ahead))
          > heatmap_column_limit

\* C30: over any sequence of reruns of streamlit_app.main, whenever the
\* results section is rendered the stored analysis_results belong to the
\* ticker selected in that rerun; results of a ticker analysed earlier are
\* never shown for another ticker.
C30_ResultsBelongToTicker ==
    (ret.op = "streamlit_app.main" /\ ret.val.rendered) =>
        /\ session_state.analysis_results # <<>>
        /\ session_state.analysis_results[1].ticker = ret.val.ticker

====
